---- MODULE Spec2Model ----
(***************************************************************************)
(* A model of the skel CLI core: the FrameworkDetector orchestrator        *)
(* (detector.ts) and the AdapterGenerator (adapter-generator.ts).          *)
(*                                                                         *)
(* Confidences are integers in hundredths (0.70 is 70, 0.95 is 95).        *)
(* Strings that the code inspects character by character (paths) are       *)
(* sequences of one-character strings.                                     *)
(*                                                                         *)
(* An action is the code between two awaits: a method runs from its entry  *)
(* or from the settling of the promise it awaits up to its next await or   *)
(* its return.  Between two such steps of a detection call the synchronous *)
(* methods registerDetector and clearCache may be called and the directory *)
(* may change.  One detection call (detect or detectParallel) is in flight *)
(* on a detector instance at a time: detection is not re-entrant within    *)
(* one instance.  A probe reads the directory when it is invoked.  Every   *)
(* stack object carries the call and the probe that created it, so that    *)
(* equality of stacks is identity of objects.                              *)
(***************************************************************************)
EXTENDS Integers, Sequences, FiniteSets, TLC

VARIABLES
    detectors,   \* FrameworkDetector.detectors: the probe list, in list order
    cache,       \* FrameworkDetector.cache: a stack, or NoStack for undefined
    dir,         \* the state of the directory cwd, as seen by the built-in probes
    pc,          \* position of the detection call: "idle", "seq" (detect awaiting a probe), "par" (detectParallel awaiting allSettled)
    idx,         \* detect(): index in detectors of the probe being awaited
    pending,     \* the outcome(s) the awaited probe promise(s) will settle to
    trace,       \* the probes invoked by the current (or last completed) call, with their outcomes, in invocation order
    log,         \* console.error lines of the current (or last completed) call
    ret,         \* what the last completed call gave its caller
    calls,       \* number of calls that ran probes so far (labels the objects they create)
    op,          \* the current (or last completed) call: "detect", "parallel" or "none"
    completed,   \* number of calls that returned a value since the last clearCache (0, 1, 2 = "2 or more")
    firstRet,    \* the stack returned by the first of those calls
    dropped,     \* the stack dropped by the last clearCache made with no call in flight
    recompute,   \* "due" after a clearCache made with no call in flight, "running" while the next
                 \* detect() runs, "done" once it has completed, "no" otherwise
    watch,       \* whether the clearCache calls made during a call are recorded in cleared
    cleared,     \* whether clearCache was called since the call in flight started; FALSE with no call in flight
    atStart,     \* the length of the probe list when the call in flight started; 0 with no call in flight
    fixed        \* custom probe number -> the outcome its detect(cwd) always has; a probe
                 \* that is not in its domain may behave differently at each invocation

detVars == <<detectors, cache, dir, pc, idx, pending, trace, log, ret, calls,
             op, completed, firstRet, dropped, recompute, watch, cleared, atStart, fixed>>

VARIABLES
    gpc,         \* position of generate(): "idle", "exists" (awaiting pathExists), "readdir", "read" (awaiting readFile), "mkdir" (awaiting ensureDir), "write" (awaiting writeFile), "done"
    input,       \* the arguments of the call: primitiveId, language, framework, targetDir
    tree,        \* the directories on disk: path -> the entry names readdir gives
    templatePath,\* generate()'s templatePath
    files,       \* the result of readdir(templatePath)
    fidx,        \* the index in files of the entry being processed
    checked,     \* the paths that have passed validatePath, in order
    probed,      \* the paths given to fs.pathExists
    listed,      \* the paths given to fs.readdir
    reads,       \* the paths given to fs.readFile
    writes,      \* the paths given to fs.ensureDir and fs.writeFile, in order
    gerr,        \* how the call ended: "none" (running), "ok", or the error raised
    gmsg         \* the message of the error raised, <<>> when there is none

genVars == <<gpc, input, tree, templatePath, files, fidx, checked, probed, listed,
             reads, writes, gerr, gmsg>>

VARIABLES
    rpc,         \* position of renderTemplate(): "idle" or "done"
    content,     \* the content of the template file, as read
    projectName, \* generate()'s projectName argument; "" is also what an omitted one gives (projectName || 'app')
    primitive,   \* generate()'s primitiveId argument, which has passed InputSchema
    rendered     \* the value renderTemplate returns, which generate() writes

renVars == <<rpc, content, projectName, primitive, rendered>>

VARIABLES
    spc,         \* position of safeReadFile(): "idle", "lstat" (awaiting fs.lstat), "read" (awaiting fs.readFile), "done"
    filePath,    \* safeReadFile's filePath argument
    rootBase,    \* safeReadFile's rootBase argument
    entry,       \* what the file system holds at the resolved path now
    stats,       \* the fs.Stats lstat gave
    sret,        \* what safeReadFile returned
    swapped,     \* whether the entry was replaced while the call was running
    opened       \* whether fs.readFile was issued

readVars == <<spc, filePath, rootBase, entry, stats, sret, swapped, opened>>

VARIABLES
    proj,        \* the project directory cwd: its manifests and marker files
    ppc,         \* detect() on a new detector: index of the built-in probe consulted next, 6 once it has returned
    found,       \* the outcomes of the probes consulted so far, in order
    pret,        \* the stack detect() returned
    prevFound,   \* the outcomes of the probes in the run before a boost indicator was added
    boosted      \* whether a boost indicator was added to the directory

probeVars == <<proj, ppc, found, pret, prevFound, boosted>>

\* the variables of the pure functions and of the probes
auxVars == <<renVars, readVars, probeVars>>

vars == <<detVars, genVars, auxVars>>

\* ------------------------------------------------------------------ bounds

\* custom probes per detector instance (constructor strategies plus registerDetector)
MaxCustom == 1
\* calls that run probes (cache misses) in one behaviour
MaxCalls == 2
\* path segments in a stack.framework value
MaxFwSegs == 3
\* dependencies declared in a structured manifest, over both of its maps
MaxDeps == 2

\* ------------------------------------------------------------- data model

\* this.cache === undefined
NoStack == [language |-> "none", framework |-> "none", confidence |-> 0,
            data |-> "none", call |-> 0, by |-> "none", n |-> 0]

\* const fallback = { language: 'unknown', framework: 'unknown', confidence: 0 },
\* a new object in each call that reaches it
Fallback(k) == [language |-> "unknown", framework |-> "unknown", confidence |-> 0,
                data |-> "none", call |-> k, by |-> "fallback", n |-> 0]

\* no entry at the path (lstat fails with ENOENT)
NoEntry == [kind |-> "missing", size |-> 0]

\* the built-in probes in the order of the constructor's defaults array;
\* every built-in class declares priority = 10
Defaults ==
    << [name |-> "Node",   n |-> 0, priority |-> 10],
       [name |-> "Python", n |-> 0, priority |-> 10],
       [name |-> "CSharp", n |-> 0, priority |-> 10],
       [name |-> "Java",   n |-> 0, priority |-> 10],
       [name |-> "PHP",    n |-> 0, priority |-> 10] >>

\* priorities a custom probe may carry, below and above the built-ins' 10;
\* 0 is also what (priority ?? 0) gives a probe that declares none
CustomPriorities == {0, 15}

Custom(i, p) == [name |-> "Custom", n |-> i, priority |-> p]

IsCustom(d) == d.name = "Custom"

\* the outcomes of a probe; data is stack.data, "none" when the stack has no data field
Null   == [kind |-> "null",   language |-> "", framework |-> "", confidence |-> 0, data |-> "none"]
Reject == [kind |-> "reject", language |-> "", framework |-> "", confidence |-> 0, data |-> "none"]
Throw  == [kind |-> "throw",  language |-> "", framework |-> "", confidence |-> 0, data |-> "none"]
\* a promise that never settles
Hang   == [kind |-> "hang",   language |-> "", framework |-> "", confidence |-> 0, data |-> "none"]
MatchData(l, f, c, d) == [kind |-> "match", language |-> l, framework |-> f, confidence |-> c,
                          data |-> d]
Match(l, f, c) == MatchData(l, f, c, "none")

\* what one invocation of a custom probe's detect(cwd) can do: fulfil with
\* null, fulfil with a result, return a promise that rejects, or raise
\* synchronously (a detect that is not an async function)
CustomOutcomes == {Null, Reject, Throw, Match("ts", "custom", 40), Match("ts", "custom", 95)}

\* directory states: what each built-in probe finds there
DirStates == {"empty", "noCwd", "nest", "javaPhp"}

\* ------------------------------------------------------ the built-in probes

\* the line feed between the lines of a text manifest
LF == "LF"

\* String.prototype.includes
Includes(s, t) ==
    \E i \in 1..(Len(s) - Len(t) + 1) : SubSeq(s, i, i + Len(t) - 1) = t

\* String.prototype.endsWith
EndsWith(s, t) ==
    /\ Len(t) <= Len(s)
    /\ SubSeq(s, Len(s) - Len(t) + 1, Len(s)) = t

\* NODE_FRAMEWORKS, in declared order
NODE_FRAMEWORKS ==
    << [key |-> "@nestjs/core",  name |-> "nestjs",  confidenceBoost |-> <<"@nestjs/cli", "nest-cli.json">>],
       [key |-> "next",          name |-> "nextjs",  confidenceBoost |-> <<"react">>],
       [key |-> "@angular/core", name |-> "angular", confidenceBoost |-> <<"@angular/cli">>],
       [key |-> "express",       name |-> "express", confidenceBoost |-> <<>>] >>

\* PHP_FRAMEWORKS
PHP_FRAMEWORKS ==
    << [key |-> "laravel/framework", name |-> "laravel", confidenceBoost |-> <<"laravel/laravel">>] >>

\* PYTHON_FRAMEWORKS, in declared order; the keys are searched in file content
PYTHON_FRAMEWORKS ==
    << [key |-> <<"d", "j", "a", "n", "g", "o">>,  name |-> "django",  confidenceBoost |-> <<>>],
       [key |-> <<"f", "a", "s", "t", "a", "p", "i">>, name |-> "fastapi", confidenceBoost |-> <<>>],
       [key |-> <<"f", "l", "a", "s", "k">>,   name |-> "flask",   confidenceBoost |-> <<>>] >>

\* CSHARP_FRAMEWORKS
CSHARP_FRAMEWORKS ==
    << [key |-> <<"M", "i", "c", "r", "o", "s", "o", "f", "t", ".", "A", "s", "p", "N", "e", "t", "C", "o", "r", "e">>, name |-> "aspnet",
        confidenceBoost |-> << <<"M", "i", "c", "r", "o", "s", "o", "f", "t", ".", "A", "s", "p", "N", "e", "t", "C", "o", "r", "e", ".", "M", "v", "c">> >>] >>

\* JAVA_FRAMEWORKS
JAVA_FRAMEWORKS ==
    << [key |-> <<"s", "p", "r", "i", "n", "g", "-", "b", "o", "o", "t", "-", "s", "t", "a", "r", "t", "e", "r">>, name |-> "spring",
        confidenceBoost |-> << <<"s", "p", "r", "i", "n", "g", "-", "b", "o", "o", "t", "-", "s", "t", "a", "r", "t", "e", "r", "-", "w", "e", "b">> >>] >>

\* getDataLayerType(packageName) for the data-layer packages of the model
DataLayerType(k) == IF k = "mongoose" THEN "mongo" ELSE "none"

\* a JSON value in a dependency map: a string, or something else
JsonString(t) == [type |-> "string", text |-> t]
JsonNumber(t) == [type |-> "number", text |-> t]

\* a dependency map of a parsed manifest: missing, an array, or an object
NoMap == [type |-> "undefined", entries |-> << >>]
ArrayMap == [type |-> "array", entries |-> << >>]
ObjectMap(f) == [type |-> "object", entries |-> f]

\* a structured manifest (package.json, composer.json): the file is absent,
\* refused by safeReadFile, empty, or has text; the text is not JSON, or
\* parses to an array or to an object with the two dependency maps a
\* (dependencies, require) and b (devDependencies, require-dev)
NoJson == [file |-> "absent", json |-> "invalid", a |-> NoMap, b |-> NoMap]
JsonFile(fl, j, a, b) == [file |-> fl, json |-> j, a |-> a, b |-> b]

\* a text manifest: the file is absent, refused by safeReadFile, or has text
NoText == [file |-> "absent", text |-> <<>>]
Refused == [file |-> "refused", text |-> <<>>]
TextFile(t) == [file |-> "text", text |-> t]

\* a directory that exists and holds nothing
EmptyProject ==
    [exists |-> TRUE, pkg |-> NoJson, siblings |-> {}, composer |-> NoJson,
     requirements |-> NoText, pipfile |-> NoText, pyproject |-> NoText,
     pom |-> NoText, gradle |-> NoText, csfiles |-> <<>>]

\* a cwd that does not exist
NoCwdProject == [EmptyProject EXCEPT !.exists = FALSE]

\* fs.pathExists
Exists(m) == m.file # "absent"

\* a schema that accepts any value in a dependency map
SchemaMapOkAny(m) == TRUE

\* z.record(z.string(), z.string()).optional()
SchemaMapOk(m) ==
    \/ m.type = "undefined"
    \/ /\ m.type = "object"
       /\ \A k \in DOMAIN m.entries : m.entries[k].type = "string"

\* JSON.parse and Schema.safeParse succeed: the text is JSON, its value is an
\* object and both dependency maps have the schema's shape
ParsedOk(m) ==
    /\ m.json = "object"
    /\ SchemaMapOk(m.a)
    /\ SchemaMapOk(m.b)

\* { ...(a ?? {}), ...(b ?? {}) }: the entries of b override those of a
Spread(a, b) ==
    [k \in (DOMAIN a.entries) \cup (DOMAIN b.entries) |->
        IF k \in DOMAIN b.entries THEN b.entries[k] ELSE a.entries[k]]

\* deps[key] is truthy: the key is declared with a non-empty string
Truthy(deps, k) == k \in DOMAIN deps /\ deps[k].text # ""

RECURSIVE FindDeclared(_, _)
\* FRAMEWORKS.find(f => deps[f.key]): the first rule whose key is truthy in
\* deps, or <<>> for undefined
FindDeclared(rules, deps) ==
    IF rules = <<>> THEN <<>>
    ELSE IF Truthy(deps, Head(rules).key) THEN <<Head(rules)>>
         ELSE FindDeclared(Tail(rules), deps)

RECURSIVE FindIncluded(_, _)
\* FRAMEWORKS.find(f => content.includes(f.key))
FindIncluded(rules, text) ==
    IF rules = <<>> THEN <<>>
    ELSE IF Includes(text, Head(rules).key) THEN <<Head(rules)>>
         ELSE FindIncluded(Tail(rules), text)

\* the first key of Object.keys(deps) that names a data layer
DataOf(deps) ==
    IF \E k \in DOMAIN deps : DataLayerType(k) # "none"
    THEN DataLayerType(CHOOSE k \in DOMAIN deps : DataLayerType(k) # "none")
    ELSE "none"

\* NodeDetector.detect
NodeDetect(p) ==
    IF ~Exists(p.pkg) THEN Null
    ELSE IF p.pkg.file # "text" THEN Null
    ELSE IF ~ParsedOk(p.pkg) THEN Null
    ELSE LET deps == Spread(p.pkg.a, p.pkg.b)
             fw   == FindDeclared(NODE_FRAMEWORKS, deps)
         IN  IF fw = <<>> THEN Null
             ELSE LET boost == fw[1].confidenceBoost
                      confidence ==
                          IF \E j \in 1..Len(boost) :
                                 Truthy(deps, boost[j]) \/ boost[j] \in p.siblings
                          THEN 95 ELSE 70
                  IN  MatchData("ts", fw[1].name, confidence, DataOf(deps))

\* PHPDetector.detect
PHPDetect(p) ==
    IF ~Exists(p.composer) THEN Null
    ELSE IF p.composer.file # "text" THEN Null
    ELSE IF ~ParsedOk(p.composer) THEN Null
    ELSE LET deps == Spread(p.composer.a, p.composer.b)
             fw   == FindDeclared(PHP_FRAMEWORKS, deps)
         IN  IF fw = <<>> THEN Null
             ELSE LET boost == fw[1].confidenceBoost
                      confidence ==
                          IF \E j \in 1..Len(boost) : Truthy(deps, boost[j])
                          THEN 95 ELSE 85
                  IN  Match("php", fw[1].name, confidence)

\* the content a probe gets from safeReadFile and accepts: <<>> when the file
\* is refused or its content is empty (!content)
ContentOf(m) == IF m.file = "text" THEN m.text ELSE <<>>

RECURSIVE PythonFrom(_, _)
\* PythonDetector.detect: the loop over requirements.txt, Pipfile, pyproject.toml
PythonFrom(list, p) ==
    IF list = <<>> THEN Null
    ELSE LET m  == Head(list).manifest
             fw == FindIncluded(PYTHON_FRAMEWORKS, ContentOf(m))
         IN  IF ~Exists(m) \/ ContentOf(m) = <<>> \/ fw = <<>>
             THEN PythonFrom(Tail(list), p)
             ELSE Match("python", fw[1].name, Head(list).confidence)

PythonDetect(p) ==
    PythonFrom(<< [manifest |-> p.requirements, confidence |-> 80],
                  [manifest |-> p.pipfile,      confidence |-> 80],
                  [manifest |-> p.pyproject,    confidence |-> 90] >>, p)

\* the confidence of a text match: the base, or 0.95 with a boost substring
Boosted(fw, text, base) ==
    IF \E j \in 1..Len(fw.confidenceBoost) : Includes(text, fw.confidenceBoost[j])
    THEN 95 ELSE base

RECURSIVE JavaFrom(_, _)
\* JavaDetector.detect: the loop over pom.xml (0.9) and build.gradle (0.85)
JavaFrom(list, p) ==
    IF list = <<>> THEN Null
    ELSE LET m  == Head(list).manifest
             fw == FindIncluded(JAVA_FRAMEWORKS, ContentOf(m))
         IN  IF ~Exists(m) \/ ContentOf(m) = <<>> \/ fw = <<>>
             THEN JavaFrom(Tail(list), p)
             ELSE Match("java", fw[1].name, Boosted(fw[1], ContentOf(m), Head(list).confidence))

JavaDetect(p) ==
    JavaFrom(<< [manifest |-> p.pom,    confidence |-> 90],
                [manifest |-> p.gradle, confidence |-> 85] >>, p)

RECURSIVE FindProject(_)
\* files.find(f => f.endsWith('.csproj') || f.endsWith('.sln')) over the
\* entries of cwd in the order readdir gives them
FindProject(entries) ==
    IF entries = <<>> THEN <<>>
    ELSE IF \/ EndsWith(Head(entries).name, <<".", "c", "s", "p", "r", "o", "j">>)
            \/ EndsWith(Head(entries).name, <<".", "s", "l", "n">>)
         THEN <<Head(entries)>>
         ELSE FindProject(Tail(entries))

\* CSharpDetector.detect; fs.readdir rejects when cwd does not exist
CSharpDetect(p) ==
    IF ~p.exists THEN Reject
    ELSE LET csproj == FindProject(p.csfiles)
         IN  IF csproj = <<>> THEN Null
             ELSE LET text == ContentOf(csproj[1].manifest)
                      fw   == FindIncluded(CSHARP_FRAMEWORKS, text)
                  IN  IF text = <<>> \/ fw = <<>> THEN Null
                      ELSE Match("csharp", fw[1].name,
                                 Boosted(fw[1], text,
                                         IF EndsWith(csproj[1].name, <<".", "c", "s", "p", "r", "o", "j">>)
                                         THEN 90 ELSE 80))

\* detect(cwd) of the built-in probe called name on the directory p
ProbeOutcome(name, p) ==
    CASE name = "Node"   -> NodeDetect(p)
      [] name = "Python" -> PythonDetect(p)
      [] name = "CSharp" -> CSharpDetect(p)
      [] name = "Java"   -> JavaDetect(p)
      [] name = "PHP"    -> PHPDetect(p)

\* what the directory states hold: nothing; no directory at all; a NestJS
\* project with its CLI; a Gradle Spring project with a Laravel composer.json
DirContents(d) ==
    CASE d = "noCwd" -> NoCwdProject
      [] d = "nest" ->
           [EmptyProject EXCEPT
               !.pkg = JsonFile("text", "object",
                                ObjectMap("@nestjs/core" :> JsonString("^10.0.0")),
                                ObjectMap("@nestjs/cli" :> JsonString("^10.0.0")))]
      [] d = "javaPhp" ->
           [EmptyProject EXCEPT
               !.gradle = TextFile(<<"s", "p", "r", "i", "n", "g", "-", "b", "o", "o", "t", "-", "s", "t", "a", "r", "t", "e", "r">>),
               !.composer = JsonFile("text", "object",
                                     ObjectMap("laravel/framework" :> JsonString("^10.0")),
                                     ObjectMap("laravel/laravel" :> JsonString("^10.0")))]
      [] OTHER -> EmptyProject

\* the results of the built-in probes on the directory states
BuiltinTable ==
    [d \in DirStates |->
        [name \in {"Node", "Python", "CSharp", "Java", "PHP"} |->
            ProbeOutcome(name, DirContents(d))]]

\* the result of a built-in probe on a directory state
BuiltinOutcome(d, name) == BuiltinTable[d][name]

\* the outcomes an invocation of probe p can have now
OutcomesOf(p) ==
    IF ~IsCustom(p) THEN {BuiltinOutcome(dir, p.name)}
    ELSE IF p.n \in DOMAIN fixed THEN {fixed[p.n]}
    ELSE CustomOutcomes

\* result.stack of a match produced by probe p during call k (a new object)
StackOf(p, o, k) == [language |-> o.language, framework |-> o.framework,
                     confidence |-> o.confidence, data |-> o.data,
                     call |-> k, by |-> p.name, n |-> p.n]

\* ------------------------------------------------------------- sorting

RECURSIVE InsertByPriority(_, _)
\* insert probe d into a list sorted by descending priority, after its equals
InsertByPriority(d, s) ==
    IF s = <<>> THEN <<d>>
    ELSE IF Head(s).priority >= d.priority
         THEN <<Head(s)>> \o InsertByPriority(d, Tail(s))
         ELSE <<d>> \o s

RECURSIVE SortByPriority(_)
\* Array.prototype.sort((a, b) => (b.priority ?? 0) - (a.priority ?? 0)): stable
SortByPriority(s) ==
    IF s = <<>> THEN <<>>
    ELSE InsertByPriority(s[Len(s)], SortByPriority(SubSeq(s, 1, Len(s) - 1)))

RECURSIVE InsertByConfidence(_, _)
InsertByConfidence(e, s) ==
    IF s = <<>> THEN <<e>>
    ELSE IF Head(s).out.confidence >= e.out.confidence
         THEN <<Head(s)>> \o InsertByConfidence(e, Tail(s))
         ELSE <<e>> \o s

RECURSIVE SortByConfidence(_)
\* .sort((a, b) => b.confidence - a.confidence): stable
SortByConfidence(s) ==
    IF s = <<>> THEN <<>>
    ELSE InsertByConfidence(s[Len(s)], SortByConfidence(SubSeq(s, 1, Len(s) - 1)))

RECURSIVE SuccessfulFulfilled(_)
\* a filter that keeps every fulfilled result, null included
SuccessfulFulfilled(s) ==
    IF s = <<>> THEN <<>>
    ELSE (IF Head(s).out.kind \in {"match", "null"} THEN <<Head(s)>> ELSE <<>>)
         \o SuccessfulFulfilled(Tail(s))

RECURSIVE Successful(_)
\* results.filter(r => r.status === 'fulfilled' && r.value !== null)
Successful(s) ==
    IF s = <<>> THEN <<>>
    ELSE (IF Head(s).out.kind = "match" THEN <<Head(s)>> ELSE <<>>) \o Successful(Tail(s))

RECURSIVE Rejected(_)
\* the settled results with status 'rejected'
Rejected(s) ==
    IF s = <<>> THEN <<>>
    ELSE (IF Head(s).out.kind = "reject" THEN <<Head(s)>> ELSE <<>>) \o Rejected(Tail(s))

\* ------------------------------------------------------- FrameworkDetector

Entry(p, o) == [probe |-> p, out |-> o]

\* an await that goes on as soon as one of the promises has settled
AnySettled(p) == \E j \in 1..Len(p) : p[j].out.kind # "hang"

\* every promise of p has settled, fulfilled or rejected: what the await of
\* one promise and the await of Promise.allSettled wait for
AllSettled(p) == \A j \in 1..Len(p) : p[j].out.kind # "hang"

\* a cache check that only trusts a stack of the highest confidence
CacheHitConfident(c) == c # NoStack /\ c.confidence >= 95

\* a cache check that never finds the cached value
CacheHitNever(c) == FALSE

\* if (this.cache) return this.cache
CacheHit(c) == c # NoStack

\* a loop body without the try/catch: a failing probe aborts detect()
SeqVerdictNoCatch(o) ==
    CASE o.kind = "match" -> "return"
      [] o.kind = "null"  -> "continue"
      [] OTHER            -> "abort"

\* what the body of detect()'s loop does with a probe's outcome: a match is
\* cached and returned, null goes on to the next probe, a rejected promise or
\* a synchronous throw lands in the catch block, is logged, and the loop goes on
SeqVerdict(o) ==
    CASE o.kind = "match" -> "return"
      [] o.kind = "null"  -> "continue"
      [] OTHER            -> "caught"

\* a clearCache that leaves the cached value in place
AfterClearKeeps(c) == c

\* this.cache = undefined
AfterClear(c) == NoStack

\* this.detectors.push(detector)
AfterRegister(s, d) == Append(s, d)

\* constructor: [...defaults, ...strategies] sorted by descending priority
Constructed(strategies) == SortByPriority(Defaults \o strategies)

RECURSIVE Advances(_, _)
\* detect()'s loop from index i up to its next await, in every way the probes
\* can behave: a probe that raises synchronously is caught and logged without
\* suspending the call; "at" is the probe the call then awaits (past the end of
\* the list when the loop is over) and "out" what that probe will settle to
Advances(i, acc) ==
    IF i > Len(detectors) THEN {[at |-> i, thrown |-> acc, out |-> Null, aborted |-> FALSE]}
    ELSE UNION { IF o.kind # "throw"
                 THEN {[at |-> i, thrown |-> acc, out |-> o, aborted |-> FALSE]}
                 ELSE IF SeqVerdict(o) = "caught"
                      THEN Advances(i + 1, Append(acc, Entry(detectors[i], o)))
                      ELSE {[at |-> i, thrown |-> Append(acc, Entry(detectors[i], o)),
                             out |-> o, aborted |-> TRUE]}
               : o \in OutcomesOf(detectors[i]) }

\* a call completes with r (a value or an error); rc is its recompute status
Complete(r, rc) ==
    /\ pc' = "idle"
    /\ idx' = 0
    /\ pending' = <<>>
    /\ ret' = r
    /\ completed' = IF r.kind = "value" /\ completed < 2 THEN completed + 1 ELSE completed
    /\ firstRet' = IF r.kind = "value" /\ completed = 0 THEN r.stack ELSE firstRet
    /\ recompute' = IF rc = "running" THEN "done" ELSE "no"
    /\ cleared' = FALSE
    /\ atStart' = 0

Value(st) == [kind |-> "value", stack |-> st]
Error == [kind |-> "error", stack |-> NoStack]

\* detect() from index i of the loop, in call k, with the trace and log so
\* far; n is the length the probe list had when the call started
SeqFrom(i, k, tr, lg, rc, n) ==
    \E a \in Advances(i, <<>>) :
        LET lg2 == lg \o [j \in 1..Len(a.thrown) |-> a.thrown[j].probe]
        IN  IF a.aborted
            THEN /\ trace' = tr \o a.thrown
                 /\ log' = lg
                 /\ cache' = cache
                 /\ Complete(Error, rc)
            ELSE IF a.at > Len(detectors)
            THEN /\ trace' = tr \o a.thrown
                 /\ log' = lg2
                 /\ cache' = Fallback(k)
                 /\ Complete(Value(Fallback(k)), rc)
            ELSE /\ trace' = tr \o a.thrown \o <<Entry(detectors[a.at], a.out)>>
                 /\ log' = lg2
                 /\ pc' = "seq"
                 /\ idx' = a.at
                 /\ pending' = <<Entry(detectors[a.at], a.out)>>
                 /\ recompute' = rc
                 /\ atStart' = n
                 /\ UNCHANGED <<cache, ret, completed, firstRet, cleared>>

\* the custom probes in the list
CustomIds == {detectors[j].n : j \in {m \in 1..Len(detectors) : IsCustom(detectors[m])}}

\* the recompute status of a detect() call that starts now
Started(rc) == IF rc = "due" THEN "running" ELSE "no"

\* detect(): the cache check, and on a miss the loop up to its first await
DetectStart ==
    /\ UNCHANGED <<genVars, auxVars>>
    /\ pc = "idle"
    /\ op' = "detect"
    /\ UNCHANGED <<detectors, dir, dropped, watch, fixed>>
    /\ IF CacheHit(cache)
       THEN /\ trace' = <<>>
            /\ log' = <<>>
            /\ UNCHANGED <<cache, calls>>
            /\ Complete(Value(cache), Started(recompute))
       ELSE /\ calls < MaxCalls
            /\ calls' = calls + 1
            /\ SeqFrom(1, calls + 1, <<>>, <<>>, Started(recompute), Len(detectors))

\* detect() resumes when the awaited probe promise settles
DetectResume ==
    /\ UNCHANGED <<genVars, auxVars>>
    /\ pc = "seq"
    /\ AllSettled(pending)
    /\ UNCHANGED <<detectors, dir, calls, op, dropped, watch, fixed>>
    /\ LET e == pending[1]
           v == SeqVerdict(e.out)
           rc == recompute
       IN  CASE v = "return" ->
                  /\ cache' = StackOf(e.probe, e.out, calls)
                  /\ UNCHANGED <<trace, log>>
                  /\ Complete(Value(StackOf(e.probe, e.out, calls)), rc)
             [] v = "abort" ->
                  /\ UNCHANGED <<cache, trace, log>>
                  /\ Complete(Error, rc)
             [] OTHER ->
                  SeqFrom(idx + 1, calls, trace,
                          IF v = "caught" THEN Append(log, e.probe) ELSE log, rc, atStart)

RECURSIVE Invocations(_, _)
\* this.detectors.map(d => d.detect(this.cwd)) from index i, in every way the
\* probes can behave: each is invoked in list order and hands back a promise;
\* a probe that raises synchronously ends the map with that exception
Invocations(i, acc) ==
    IF i > Len(detectors) THEN {[results |-> acc, aborted |-> FALSE]}
    ELSE UNION { IF o.kind = "throw"
                 THEN {[results |-> Append(acc, Entry(detectors[i], o)), aborted |-> TRUE]}
                 ELSE Invocations(i + 1, Append(acc, Entry(detectors[i], o)))
               : o \in OutcomesOf(detectors[i]) }

\* the winner among the settled results: the fulfilled non-null ones, sorted
\* by descending confidence, first element
Ranked(results) == SortByConfidence(Successful(results))

\* detectParallel(): the cache check, and on a miss the invocation of every
\* probe, up to await Promise.allSettled
ParallelStart ==
    /\ UNCHANGED <<genVars, auxVars>>
    /\ pc = "idle"
    /\ op' = "parallel"
    /\ log' = <<>>
    /\ UNCHANGED <<detectors, dir, dropped, watch, fixed>>
    /\ IF CacheHit(cache)
       THEN /\ trace' = <<>>
            /\ UNCHANGED <<cache, calls>>
            /\ Complete(Value(cache), "no")
       ELSE /\ calls < MaxCalls
            /\ calls' = calls + 1
            /\ cache' = cache
            /\ \E m \in Invocations(1, <<>>) :
                  /\ trace' = m.results
                  /\ IF m.aborted
                     THEN Complete(Error, "no")
                     ELSE /\ pc' = "par"
                          /\ idx' = 0
                          /\ pending' = m.results
                          /\ recompute' = "no"
                          /\ atStart' = Len(detectors)
                          /\ UNCHANGED <<ret, completed, firstRet, cleared>>

\* detectParallel() resumes when every probe promise has settled
ParallelResume ==
    /\ UNCHANGED <<genVars, auxVars>>
    /\ pc = "par"
    /\ AllSettled(pending)
    /\ UNCHANGED <<detectors, dir, calls, op, trace, dropped, watch, fixed>>
    /\ LET successful == Ranked(pending)
       IN  IF Len(successful) > 0
           THEN /\ cache' = StackOf(successful[1].probe, successful[1].out, calls)
                /\ log' = log
                /\ Complete(Value(StackOf(successful[1].probe, successful[1].out, calls)), "no")
           ELSE /\ log' = [j \in 1..Len(Rejected(pending)) |-> Rejected(pending)[j].probe]
                /\ cache' = Fallback(calls)
                /\ Complete(Value(Fallback(calls)), "no")

\* registerDetector(detector)
RegisterDetector ==
    /\ UNCHANGED <<genVars, auxVars>>
    /\ \E i \in 1..MaxCustom, p \in CustomPriorities :
          /\ i = Cardinality(CustomIds) + 1
          /\ detectors' = AfterRegister(detectors, Custom(i, p))
    /\ UNCHANGED <<cache, dir, pc, idx, pending, trace, log, ret, calls, op,
                   completed, firstRet, dropped, recompute, watch, cleared, atStart, fixed>>

\* clearCache()
ClearCache ==
    /\ UNCHANGED <<genVars, auxVars>>
    /\ cache' = AfterClear(cache)
    /\ completed' = 0
    /\ firstRet' = NoStack
    /\ dropped' = IF pc = "idle" THEN cache ELSE dropped
    /\ recompute' = IF pc = "idle" THEN "due" ELSE recompute
    /\ cleared' = (watch /\ pc # "idle")
    /\ UNCHANGED <<detectors, dir, pc, idx, pending, trace, log, ret, calls, op, watch, atStart, fixed>>

\* the project directory changes on disk
DirChange ==
    /\ UNCHANGED <<genVars, auxVars>>
    /\ \E d \in DirStates \ {dir} : dir' = d
    /\ UNCHANGED <<detectors, cache, pc, idx, pending, trace, log, ret, calls, op,
                   completed, firstRet, dropped, recompute, watch, cleared, atStart, fixed>>

\* a detector on which nothing has been called yet
DetectorUnused ==
    /\ cache = NoStack
    /\ pc = "idle"
    /\ idx = 0
    /\ pending = <<>>
    /\ trace = <<>>
    /\ log = <<>>
    /\ ret = [kind |-> "none", stack |-> NoStack]
    /\ calls = 0
    /\ op = "none"
    /\ completed = 0
    /\ firstRet = NoStack
    /\ dropped = NoStack
    /\ recompute = "no"
    /\ watch = FALSE
    /\ cleared = FALSE
    /\ atStart = 0
    /\ fixed = << >>

\* no generate() call is made
GeneratorUnused ==
    /\ gpc = "idle"
    /\ input = [primitiveId |-> <<>>, language |-> <<>>, framework |-> <<>>, targetDir |-> <<>>]
    /\ tree = << >>
    /\ templatePath = <<>>
    /\ files = <<>>
    /\ fidx = 0
    /\ checked = <<>>
    /\ probed = {}
    /\ listed = {}
    /\ reads = {}
    /\ writes = <<>>
    /\ gerr = "none"
    /\ gmsg = <<>>

\* no template has been rendered
RenderUnused ==
    /\ rpc = "idle"
    /\ content = <<>>
    /\ projectName = <<>>
    /\ primitive = <<>>
    /\ rendered = <<>>

\* no safeReadFile call is made
ReaderUnused ==
    /\ spc = "idle"
    /\ filePath = <<>>
    /\ rootBase = <<>>
    /\ entry = NoEntry
    /\ stats = NoEntry
    /\ sret = [kind |-> "none", from |-> "none"]
    /\ swapped = FALSE
    /\ opened = FALSE

\* no project directory is probed in detail
ProbesUnused ==
    /\ proj = EmptyProject
    /\ ppc = 0
    /\ found = <<>>
    /\ pret = NoStack
    /\ prevFound = <<>>
    /\ boosted = FALSE

AuxUnused == RenderUnused /\ ReaderUnused /\ ProbesUnused

\* new FrameworkDetector(cwd, strategies)
Init ==
    /\ \E n \in 0..MaxCustom : \E ps \in [1..n -> CustomPriorities] :
          detectors = Constructed([i \in 1..n |-> Custom(i, ps[i])])
    /\ dir \in DirStates
    /\ DetectorUnused
    /\ GeneratorUnused
    /\ AuxUnused

Next ==
    \/ DetectStart
    \/ DetectResume
    \/ ParallelStart
    \/ ParallelResume
    \/ RegisterDetector
    \/ ClearCache
    \/ DirChange

Spec == Init /\ [][Next]_vars

\* ------------------------------------------------- claims on the detector

\* position of a probe in registration order: the built-ins in the order of
\* the defaults array, then the custom probes in the order they were supplied
Rank(p) ==
    CASE p.name = "Node"   -> 1
      [] p.name = "Python" -> 2
      [] p.name = "CSharp" -> 3
      [] p.name = "Java"   -> 4
      [] p.name = "PHP"    -> 5
      [] OTHER             -> 5 + p.n

Probes(tr) == [j \in 1..Len(tr) |-> tr[j].probe]

Failing(tr) == {j \in 1..Len(tr) : tr[j].out.kind \in {"reject", "throw"}}

Matching(tr) == {j \in 1..Len(tr) : tr[j].out.kind = "match"}

SameStack(st, e) ==
    /\ st.language = e.out.language
    /\ st.framework = e.out.framework
    /\ st.confidence = e.out.confidence
    /\ st.by = e.probe.name
    /\ st.n = e.probe.n

IsUnknown(st) ==
    st.language = "unknown" /\ st.framework = "unknown" /\ st.confidence = 0

\* a step in which a call completes
Completes == pc' = "idle" /\ (pc # "idle" \/ calls' # calls \/ ret' # ret \/ op' # op)

\* a step in which a call that runs the probes starts
StartsProbing == calls' = calls + 1

\* what holds of a detect() call that ran the probes, when it completes
DetectOutcome ==
    /\ ret.kind = "value"
    /\ Probes(trace) = SubSeq(detectors, 1, Len(trace))
    /\ \A j \in Failing(trace) : \E m \in 1..Len(log) : log[m] = trace[j].probe
    /\ Len(log) = Cardinality(Failing(trace))
    /\ IF Matching(trace) # {}
       THEN /\ Matching(trace) = {Len(trace)}
            /\ SameStack(ret.stack, trace[Len(trace)])
       ELSE /\ Len(trace) = Len(detectors)
            /\ IsUnknown(ret.stack)

\* C1: detect() never throws to its caller: a probe that throws (a rejected
\* promise or a synchronous exception) is logged and treated as NoMatch, the
\* probes after it are still consulted, the first match among all probes is
\* returned, and with no match the unknown stack (confidence 0) is returned.
C1_DetectNeverThrows ==
    [][(Completes /\ op' = "detect" /\ trace' # <<>>) => DetectOutcome']_vars

\* C1 witness: a completed detect() in which a probe threw and a later probe's
\* match was returned
C1_Witness ==
    /\ pc = "idle" /\ op = "detect" /\ ret.kind = "value"
    /\ Failing(trace) # {}
    /\ Matching(trace) # {}
    /\ \E j \in Failing(trace) : j < Len(trace)
    /\ SameStack(ret.stack, trace[Len(trace)])

\* C2: detect() with an empty cache invokes the probes one at a time in
\* descending priority order, probes of equal priority in registration order
\* (the built-ins as Node, Python, C#, Java, PHP); the first match wins, is
\* cached and returned, and no probe after the winner is invoked.
C2_PriorityOrder ==
    (op = "detect" /\ trace # <<>>) =>
        /\ \A i, j \in 1..Len(trace) :
              i < j => \/ trace[i].probe.priority > trace[j].probe.priority
                       \/ /\ trace[i].probe.priority = trace[j].probe.priority
                          /\ Rank(trace[i].probe) < Rank(trace[j].probe)
        /\ \A j \in Matching(trace) : j = Len(trace)
        /\ (pc = "idle" /\ Matching(trace) # {}) =>
              /\ SameStack(ret.stack, trace[Len(trace)])
              /\ (completed >= 1 => cache = ret.stack)

\* C3: once a detect() has completed, every later detect() made before any
\* clearCache() returns the identical cached stack (same object) and invokes no
\* probe, whatever was registered or changed on disk in between.
C3_CachedUntilClear ==
    /\ completed >= 1 => (pc = "idle" /\ cache = firstRet /\ firstRet # NoStack)
    /\ (completed = 2 /\ op = "detect") => (ret = Value(firstRet) /\ trace = <<>>)

\* C3 witness: a second detect() returned the first one's object although a
\* probe registered since then sits in the list
C3_Witness ==
    /\ completed = 2 /\ op = "detect" /\ trace = <<>>
    /\ ret = Value(firstRet)
    /\ \E j \in 1..Len(detectors) : IsCustom(detectors[j])
    /\ firstRet.by = "Node" /\ dir = "empty"

\* C4: with no detection in flight, after clearCache() the next detect()
\* invokes the probes again and returns a freshly computed stack, a new object
\* and not the previously cached one.
C4_RecomputeAfterClear ==
    recompute = "done" =>
        /\ op = "detect"
        /\ ret.kind = "value"
        /\ trace # <<>>
        /\ trace[1].probe = detectors[1]
        /\ ret.stack # dropped
        /\ ret.stack.call = calls
        /\ dropped.call < calls

\* C4 witness: after a clearCache() that dropped a cached stack, detect() ran
\* the probes on an unchanged directory and returned an equal but new object
C4_Witness ==
    /\ recompute = "done" /\ dropped # NoStack
    /\ ret.stack.language = dropped.language
    /\ ret.stack.framework = dropped.framework
    /\ ret.stack.by = dropped.by
    /\ ret.stack # dropped

\* C5: detectParallel() with an empty cache returns and caches the stack of
\* the fulfilled non-null result with the highest confidence, and among
\* results sharing the highest confidence that of the probe with the highest
\* priority, for every probe list including those extended by registerDetector().
C5_HighestConfidenceThenPriority ==
    (op = "parallel" /\ pc = "idle" /\ ret.kind = "value" /\ Matching(trace) # {}) =>
        /\ \E w \in Matching(trace) :
              /\ SameStack(ret.stack, trace[w])
              /\ \A j \in Matching(trace) :
                    \/ trace[w].out.confidence > trace[j].out.confidence
                    \/ /\ trace[w].out.confidence = trace[j].out.confidence
                       /\ trace[w].probe.priority >= trace[j].probe.priority
        /\ (completed >= 1 => cache = ret.stack)

\* C6: detectParallel() never throws or rejects to its caller, whether a probe
\* returns a rejecting promise or raises synchronously when invoked; it
\* resolves to a stack, the unknown stack when no probe fulfils with a match.
C6_ParallelNeverThrows ==
    (op = "parallel" /\ pc = "idle") =>
        /\ ret.kind = "value"
        /\ (trace # <<>> /\ Matching(trace) = {}) => IsUnknown(ret.stack)

\* a probe of the list whose priority is higher than that of every other one
Top(s) == {j \in 1..Len(s) : \A m \in 1..Len(s) : m # j => s[j].priority > s[m].priority}

\* C7: registerDetector(probe) appends and re-sorts by priority, so that on
\* the next detect() with an empty cache a registered probe whose priority is
\* higher than that of every existing probe is the first probe invoked, and
\* wins if it matches.
C7_RegisteredHighestRunsFirst ==
    [][(StartsProbing /\ op' = "detect" /\ Top(detectors) # {}) =>
          /\ \A j \in Top(detectors) : trace'[1].probe = detectors[j]
          /\ (trace'[1].out.kind = "match" /\ pc' = "seq") =>
                 pending' = <<trace'[1]>>]_vars

\* C15: in every detectParallel() call that runs the probes, each probe whose
\* promise rejects is excluded from winner selection and is logged, whether
\* or not some other probe fulfils with a match in that call.
C15_RejectedExcludedAndLogged ==
    (op = "parallel" /\ pc = "idle" /\ ret.kind = "value" /\ trace # <<>>) =>
        \A j \in 1..Len(trace) :
            trace[j].out.kind = "reject" =>
                /\ ~SameStack(ret.stack, trace[j])
                /\ \E m \in 1..Len(log) : log[m] = trace[j].probe

\* ------------------------------------------------------------ path strings

\* the one-character string "\0"
NUL == "NUL"

Str1(a) == <<a>>

\* String.prototype.startsWith
StartsWith(s, prefix) ==
    /\ Len(prefix) <= Len(s)
    /\ SubSeq(s, 1, Len(prefix)) = prefix

RECURSIVE SplitOn(_, _)
\* s.split('/') with the segment being read, cur, carried along
SplitOn(s, cur) ==
    IF s = <<>> THEN <<cur>>
    ELSE IF Head(s) = "/" THEN <<cur>> \o SplitOn(Tail(s), <<>>)
         ELSE SplitOn(Tail(s), Append(cur, Head(s)))

Split(s) == SplitOn(s, <<>>)

RECURSIVE JoinSegs(_)
\* segments joined by '/'
JoinSegs(segs) ==
    IF segs = <<>> THEN <<>>
    ELSE IF Len(segs) = 1 THEN segs[1]
         ELSE segs[1] \o <<"/">> \o JoinSegs(Tail(segs))

RECURSIVE NormSegs(_, _, _)
\* normalizeString of node's posix path module: empty and '.' segments are
\* dropped, '..' removes the segment before it; above the start '..' is kept
\* for a relative path and dropped for an absolute one
NormSegs(segs, acc, allowAboveRoot) ==
    IF segs = <<>> THEN acc
    ELSE LET g == Head(segs)
         IN  IF g = <<>> \/ g = <<".">> THEN NormSegs(Tail(segs), acc, allowAboveRoot)
             ELSE IF g = <<".", ".">>
                  THEN IF acc # <<>> /\ acc[Len(acc)] # <<".", ".">>
                       THEN NormSegs(Tail(segs), SubSeq(acc, 1, Len(acc) - 1), allowAboveRoot)
                       ELSE IF allowAboveRoot
                            THEN NormSegs(Tail(segs), Append(acc, g), allowAboveRoot)
                            ELSE NormSegs(Tail(segs), acc, allowAboveRoot)
                  ELSE NormSegs(Tail(segs), Append(acc, g), allowAboveRoot)

IsAbsolute(s) == s # <<>> /\ s[1] = "/"

\* path.normalize
Normalize(s) ==
    IF s = <<>> THEN <<".">>
    ELSE LET abs   == IsAbsolute(s)
             trail == s[Len(s)] = "/"
             body  == JoinSegs(NormSegs(Split(s), <<>>, ~abs))
         IN  IF body = <<>>
             THEN (IF abs THEN <<"/">> ELSE IF trail THEN <<".", "/">> ELSE <<".">>)
             ELSE (IF abs THEN <<"/">> ELSE <<>>) \o body \o (IF trail THEN <<"/">> ELSE <<>>)

RECURSIVE JoinParts(_)
\* the non-empty arguments of path.join, joined by '/'
JoinParts(parts) ==
    IF parts = <<>> THEN <<>>
    ELSE LET rest == JoinParts(Tail(parts))
         IN  IF Head(parts) = <<>> THEN rest
             ELSE IF rest = <<>> THEN Head(parts)
                  ELSE Head(parts) \o <<"/">> \o rest

\* path.join
PathJoin(parts) == Normalize(JoinParts(parts))

\* process.cwd(), which path.resolve puts before a relative path
Cwd == <<"/", "w">>

\* path.resolve of one argument: an absolute normalized path, no trailing '/'
Resolve(s) ==
    LET full == IF IsAbsolute(s) THEN s ELSE Cwd \o <<"/">> \o s
    IN  <<"/">> \o JoinSegs(NormSegs(Split(full), <<>>, FALSE))

\* path.dirname of an absolute normalized path
Dirname(s) ==
    LET segs == NormSegs(Split(s), <<>>, FALSE)
    IN  <<"/">> \o JoinSegs(SubSeq(segs, 1, Len(segs) - 1))

HasNul(s) == \E j \in 1..Len(s) : s[j] = NUL

\* ------------------------------------------------------- AdapterGenerator

\* the templatesRoot the generator was constructed with (already resolved)
TemplatesRoot == <<"/", "w", "/", "t">>

\* z.enum(['ts', 'csharp', 'java', 'python', 'php', 'unknown'])
Languages ==
    { <<"t", "s">>, <<"c", "s", "h", "a", "r", "p">>, <<"j", "a", "v", "a">>,
      <<"p", "y", "t", "h", "o", "n">>, <<"p", "h", "p">>,
      <<"u", "n", "k", "n", "o", "w", "n">> }

LowerCase == {"a", "b", "c", "d", "e", "f", "g", "h", "i", "j", "k", "l", "m", "n", "o",
              "p", "q", "r", "s", "t", "u", "v", "w", "x", "y", "z"}

\* /^[a-z]+\.[a-z]+$/
IsPrimitiveId(s) ==
    \E d \in 2..(Len(s) - 1) :
        /\ s[d] = "."
        /\ \A j \in 1..Len(s) : j # d => s[j] \in LowerCase

\* a schema that lets an empty targetDir through (z.string() without min(1))
InputValidAnyTargetDir(in) ==
    /\ IsPrimitiveId(in.primitiveId)
    /\ in.language \in Languages

\* InputSchema.parse succeeds
InputValid(in) ==
    /\ IsPrimitiveId(in.primitiveId)
    /\ in.language \in Languages
    /\ Len(in.targetDir) >= 1

\* validatePath does not throw
PathAllowed(q) == StartsWith(Resolve(Normalize(q)), TemplatesRoot)

\* fs.pathExists: false for a missing path and for one the file system refuses
PathExists(q) == ~HasNul(q) /\ q \in DOMAIN tree

\* path segments a caller may put in stack.framework
FwSegments == { <<"n">>, <<".", ".">>, <<"t", "x">>, <<"n", NUL>> }

\* stack.framework: up to MaxFwSegs segments joined by '/', or the empty string
Frameworks ==
    UNION { {JoinSegs(q) : q \in [1..k -> FwSegments]} : k \in 0..MaxFwSegs }

\* primitiveId: 'a.b', 'A.b', 'ab', 'a-b'
PrimitiveIds == { <<"a", ".", "b">>, <<"A", ".", "b">>, <<"a", "b">>, <<"a", "-", "b">> }

\* stack.language: 'ts', 'go'
LanguageInputs == { <<"t", "s">>, <<"g", "o">> }

\* the target directory of the calls
Target == <<"/", "o">>

\* targetDir: '/o', ''
TargetDirs == { Target, <<>> }

\* the bundle for language ts, framework n, primitive a.b under templatesRoot
Bundle == <<"/", "w", "/", "t", "/", "t", "s", "/", "n", "/", "a", ".", "b">>

\* a directory next to templatesRoot whose name begins with templatesRoot's name
Sibling == <<"/", "w", "/", "t", "x", "/", "a", ".", "b">>

\* an entry name crafted to leave templatesRoot
Crafted == <<".", ".", "/", ".", ".", "/", ".", ".", "/", ".", ".", "/", "x">>

\* what readdir can give for the bundle
Listings ==
    { <<>>, <<Str1("f")>>, <<Str1("f"), Str1("g")>>, <<Str1("f"), Crafted>>,
      <<Crafted, Str1("f")>> }

\* the directory trees: the bundle exists, with some listing, or does not;
\* the target directory exists and has no entries, or does not exist
Trees ==
    LET sources == { (Bundle :> l) @@ (Sibling :> <<Str1("s")>>) : l \in Listings }
                   \cup { (Sibling :> <<Str1("s")>>) }
    IN  sources \cup { (Target :> <<>>) @@ s : s \in sources }

\* a message that names templatesRoot, whatever path was attempted
NotFoundMessageRoot(q) == <<"Template not found: ">> \o TemplatesRoot

\* `Template not found: ${templatePath}`
NotFoundMessage(q) == <<"Template not found: ">> \o q

\* the message of the error with code e raised for the path q; the errors of
\* zod and of fs carry no message of the generator
Message(e, q) ==
    CASE e = "TEMPLATE_NOT_FOUND" -> NotFoundMessage(q)
      [] e = "PATH_TRAVERSAL"     -> <<"Path traversal detected: ">> \o q
      [] OTHER                    -> <<>>

\* generate() ends with outcome e, raised for the path q
GenEnd(e, q) ==
    /\ gpc' = "done"
    /\ gerr' = e
    /\ gmsg' = Message(e, q)

\* generate() goes on to its next await
GenOn ==
    /\ gerr' = gerr
    /\ gmsg' = gmsg

\* the body of the for loop for entry i, up to await fs.readFile; past the
\* last entry generate() returns
LoopFrom(i, fs) ==
    IF i > Len(fs)
    THEN /\ GenEnd("ok", <<>>)
         /\ UNCHANGED <<checked, reads, fidx>>
    ELSE LET srcPath == PathJoin(<<templatePath, fs[i]>>)
         IN  IF ~PathAllowed(srcPath)
             THEN /\ GenEnd("PATH_TRAVERSAL", srcPath)
                  /\ UNCHANGED <<checked, reads, fidx>>
             ELSE /\ checked' = Append(checked, srcPath)
                  /\ reads' = reads \cup {srcPath}
                  /\ fidx' = i
                  /\ gpc' = "read"
                  /\ GenOn

\* generate(primitiveId, stack, targetDir): InputSchema.parse, the bundle
\* path, validatePath, up to await fs.pathExists
GenerateStart ==
    /\ gpc = "idle"
    /\ \E pid \in PrimitiveIds, l \in LanguageInputs, fw \in Frameworks, t \in TargetDirs :
          LET in == [primitiveId |-> pid, language |-> l, framework |-> fw, targetDir |-> t]
              tp == PathJoin(<<TemplatesRoot, l, fw, pid>>)
          IN  /\ input' = in
              /\ IF ~InputValid(in)
                 THEN /\ GenEnd("VALIDATION", <<>>)
                      /\ UNCHANGED <<templatePath, checked, probed>>
                 ELSE /\ templatePath' = tp
                      /\ IF ~PathAllowed(tp)
                         THEN /\ GenEnd("PATH_TRAVERSAL", tp)
                              /\ UNCHANGED <<checked, probed>>
                         ELSE /\ checked' = Append(checked, tp)
                              /\ probed' = probed \cup {tp}
                              /\ gpc' = "exists"
                              /\ GenOn
    /\ UNCHANGED <<tree, files, fidx, listed, reads, writes>>
    /\ UNCHANGED <<detVars, auxVars>>

\* pathExists has settled: TemplateNotFoundError, or up to await fs.readdir
GenExists ==
    /\ gpc = "exists"
    /\ IF ~PathExists(templatePath)
       THEN /\ GenEnd("TEMPLATE_NOT_FOUND", templatePath)
            /\ UNCHANGED listed
       ELSE /\ listed' = listed \cup {templatePath}
            /\ gpc' = "readdir"
            /\ GenOn
    /\ UNCHANGED <<input, tree, templatePath, files, fidx, checked, probed, reads, writes>>
    /\ UNCHANGED <<detVars, auxVars>>

\* readdir has settled: the loop starts
GenReaddir ==
    /\ gpc = "readdir"
    /\ files' = tree[templatePath]
    /\ LoopFrom(1, tree[templatePath])
    /\ UNCHANGED <<input, tree, templatePath, probed, listed, writes>>
    /\ UNCHANGED <<detVars, auxVars>>

\* const destPath = path.join(targetDir, file)
DestPath == PathJoin(<<input.targetDir, files[fidx]>>)

\* the tree once ensureDir(q) has fulfilled: q is a directory
EnsureDir(tr, q) == IF q \in DOMAIN tr THEN tr ELSE (q :> <<>>) @@ tr

\* a writeFile that leaves nothing on disk
WriteFileLost(tr, dest, name) == tr

\* the tree once writeFile(dest) has fulfilled for the entry called name: the
\* directory of dest holds name (a file that was there is overwritten)
WriteFile(tr, dest, name) ==
    LET d == Dirname(dest)
    IN  IF d \notin DOMAIN tr \/ (\E j \in 1..Len(tr[d]) : tr[d][j] = name) THEN tr
        ELSE [tr EXCEPT ![d] = Append(@, name)]

\* readFile has settled: rejected (the entry is a directory, or cannot be
\* read), which ends generate() with that error, or fulfilled: the content
\* is rendered, up to await fs.ensureDir
GenRead ==
    /\ gpc = "read"
    /\ \/ /\ GenEnd("FS_ERROR", <<>>)
          /\ UNCHANGED writes
       \/ /\ writes' = Append(writes, [call |-> "ensureDir", path |-> Dirname(DestPath)])
          /\ gpc' = "mkdir"
          /\ GenOn
    /\ UNCHANGED <<input, tree, templatePath, files, fidx, checked, probed, listed, reads>>
    /\ UNCHANGED <<detVars, auxVars>>

\* ensureDir has settled: rejected, or fulfilled, up to await fs.writeFile
GenMkdir ==
    /\ gpc = "mkdir"
    /\ \/ /\ GenEnd("FS_ERROR", <<>>)
          /\ UNCHANGED <<writes, tree>>
       \/ /\ tree' = EnsureDir(tree, Dirname(DestPath))
          /\ writes' = Append(writes, [call |-> "writeFile", path |-> DestPath])
          /\ gpc' = "write"
          /\ GenOn
    /\ UNCHANGED <<input, templatePath, files, fidx, checked, probed, listed, reads>>
    /\ UNCHANGED <<detVars, auxVars>>

\* writeFile has settled: rejected, or fulfilled, and the loop goes on to the
\* next entry
GenWrite ==
    /\ gpc = "write"
    /\ \/ /\ GenEnd("FS_ERROR", <<>>)
          /\ UNCHANGED <<tree, checked, reads, fidx>>
       \/ /\ tree' = WriteFile(tree, DestPath, files[fidx])
          /\ LoopFrom(fidx + 1, files)
    /\ UNCHANGED <<input, templatePath, files, probed, listed, writes>>
    /\ UNCHANGED <<detVars, auxVars>>

\* a generator on some directory tree, no call made yet
GenInit ==
    /\ detectors = Constructed(<<>>)
    /\ dir = "empty"
    /\ DetectorUnused
    /\ gpc = "idle"
    /\ input = [primitiveId |-> <<>>, language |-> <<>>, framework |-> <<>>, targetDir |-> <<>>]
    /\ tree \in Trees
    /\ templatePath = <<>>
    /\ files = <<>>
    /\ fidx = 0
    /\ checked = <<>>
    /\ probed = {}
    /\ listed = {}
    /\ reads = {}
    /\ writes = <<>>
    /\ gerr = "none"
    /\ gmsg = <<>>
    /\ AuxUnused

GenNext ==
    \/ GenerateStart
    \/ GenExists
    \/ GenReaddir
    \/ GenRead
    \/ GenMkdir
    \/ GenWrite

GenSpec == GenInit /\ [][GenNext]_vars

\* ------------------------------------------------ claims on the generator

\* the directory tree under root: root itself or a descendant of it
Inside(q, root) ==
    LET qs == NormSegs(Split(q), <<>>, FALSE)
        rs == NormSegs(Split(root), <<>>, FALSE)
    IN  Len(rs) <= Len(qs) /\ SubSeq(qs, 1, Len(rs)) = rs

\* the source path of entry i of the bundle listing
SrcPath(i) == PathJoin(<<templatePath, files[i]>>)

\* C8: generate() performs zero filesystem writes until the inputs and the
\* path of every source file in the bundle have passed validation; if the path
\* check fails for any entry, nothing has been written, whatever the position
\* of that entry in the listing.
C8_NoWriteBeforeAllValidated ==
    /\ writes # <<>> =>
          \A i \in 1..Len(files) : \E m \in 1..Len(checked) : checked[m] = SrcPath(i)
    /\ gerr = "PATH_TRAVERSAL" => writes = <<>>

\* C9: generate() raises PathTraversalError (code PATH_TRAVERSAL), before any
\* template read and before any write, for every stack.framework whose '../'
\* segments take the bundle path outside templatesRoot and for every
\* stack.framework that contains a null byte.
C9_TraversalOrNulRejected ==
    (gpc = "done" /\ InputValid(input)
       /\ (HasNul(input.framework) \/ ~Inside(templatePath, TemplatesRoot))) =>
        /\ gerr = "PATH_TRAVERSAL"
        /\ reads = {}
        /\ writes = <<>>

\* C10: the bundle directory generate() lists and every template file it reads
\* lie inside the templatesRoot directory tree; a directory that is only a
\* sibling of templatesRoot is never listed or read.
C10_ReadsStayInsideRoot ==
    /\ \A q \in listed : Inside(q, TemplatesRoot)
    /\ \A q \in reads : Inside(q, TemplatesRoot)

\* C11: generate() raises a validation error and performs no filesystem access
\* at all (no existence check, listing, read, directory creation or write)
\* whenever primitiveId does not match ^[a-z]+\.[a-z]+$, or stack.language is
\* not one of ts, csharp, java, python, php, unknown, or targetDir is empty.
C11_ValidationBeforeIO ==
    (gpc # "idle" /\ (\/ ~IsPrimitiveId(input.primitiveId)
                      \/ input.language \notin Languages
                      \/ input.targetDir = <<>>)) =>
        /\ gpc = "done"
        /\ gerr = "VALIDATION"
        /\ probed = {} /\ listed = {} /\ reads = {} /\ writes = <<>>

\* C11 witness: generate('a.b', {ts, n}, '') on a tree where the bundle exists
\* ended with a validation error
C11_Witness ==
    /\ gpc = "done" /\ gerr = "VALIDATION"
    /\ input.primitiveId = <<"a", ".", "b">>
    /\ input.language = <<"t", "s">>
    /\ input.framework = <<"n">>
    /\ input.targetDir = <<>>
    /\ Bundle \in DOMAIN tree

\* --------------------------------------------------------- renderTemplate

\* the keys of the variables generate() passes, in the order of the object literal
ProjectNameKey == <<"P", "R", "O", "J", "E", "C", "T", "_", "N", "A", "M", "E">>
PrimitiveIdKey == <<"P", "R", "I", "M", "I", "T", "I", "V", "E", "_", "I", "D">>

\* the text new RegExp(`{{${key}}}`, 'g') matches: the braces are literal
\* characters of the pattern, and no key holds a regular-expression operator
Placeholder(key) == <<"{", "{">> \o key \o <<"}", "}">>

\* the pattern matches s at index i
MatchesAt(s, i, pat) ==
    /\ i + Len(pat) - 1 <= Len(s)
    /\ SubSeq(s, i, i + Len(pat) - 1) = pat

\* the one-character strings of a backtick and of a single quote
Backtick == "backtick"
Quote == "quote"

RECURSIVE GetSubstitution(_, _, _, _)
\* the expansion String.prototype.replace makes of a replacement string, for a
\* pattern with no capture group: $$ is $, $& the matched text, $ and a
\* backtick the text before the match, $ and a single quote the text after
\* it; any other $ stays as it is
GetSubstitution(repl, matched, before, after) ==
    IF repl = <<>> THEN <<>>
    ELSE IF Head(repl) = "$" /\ Len(repl) >= 2
         THEN LET c    == repl[2]
                  rest == SubSeq(repl, 3, Len(repl))
              IN  CASE c = "$" -> <<"$">> \o GetSubstitution(rest, matched, before, after)
                    [] c = "&" -> matched \o GetSubstitution(rest, matched, before, after)
                    [] c = Backtick -> before \o GetSubstitution(rest, matched, before, after)
                    [] c = Quote -> after \o GetSubstitution(rest, matched, before, after)
                    [] OTHER   -> <<"$">> \o GetSubstitution(Tail(repl), matched, before, after)
         ELSE <<Head(repl)>> \o GetSubstitution(Tail(repl), matched, before, after)

RECURSIVE ReplaceFrom(_, _, _, _)
\* the global replace from index i of s: matches are taken left to right and
\* do not overlap; the replaced text is not searched again
ReplaceFrom(s, i, pat, repl) ==
    IF i > Len(s) THEN <<>>
    ELSE IF MatchesAt(s, i, pat)
         THEN GetSubstitution(repl, pat, SubSeq(s, 1, i - 1),
                              SubSeq(s, i + Len(pat), Len(s)))
              \o ReplaceFrom(s, i + Len(pat), pat, repl)
         ELSE <<s[i]>> \o ReplaceFrom(s, i + 1, pat, repl)

\* rendered.replace(new RegExp(`{{${key}}}`, 'g'), value)
ReplaceAll(s, key, value) == ReplaceFrom(s, 1, Placeholder(key), value)

RECURSIVE RenderTemplate(_, _)
\* renderTemplate(content, variables): one global replace per entry of
\* variables, in order, each on the result of the one before
RenderTemplate(c, variables) ==
    IF variables = <<>> THEN c
    ELSE RenderTemplate(ReplaceAll(c, Head(variables).key, Head(variables).value),
                        Tail(variables))

\* { PROJECT_NAME: projectName || 'app', PRIMITIVE_ID: primitiveId }
Variables(name, pid) ==
    << [key |-> ProjectNameKey, value |-> IF name = <<>> THEN <<"a", "p", "p">> ELSE name],
       [key |-> PrimitiveIdKey, value |-> pid] >>

\* template file contents
Templates ==
    { <<"{", "{", "P", "R", "O", "J", "E", "C", "T", "_", "N", "A", "M", "E", "}", "}", " ", "{", "{", "P", "R", "O", "J", "E", "C", "T", "_", "N", "A", "M", "E", "}", "}", " ", "{", "{", "P", "R", "O", "J", "E", "C", "T", "_", "N", "A", "M", "E", "}", "}">>,
      <<"{", "{", "P", "R", "O", "J", "E", "C", "T", "_", "N", "A", "M", "E", "}", "}", "-", "{", "{", "P", "R", "O", "J", "E", "C", "T", "_", "N", "A", "M", "E", "}", "}">>,
      <<"{", "{", "P", "R", "I", "M", "I", "T", "I", "V", "E", "_", "I", "D", "}", "}", ":", "{", "{", "P", "R", "O", "J", "E", "C", "T", "_", "N", "A", "M", "E", "}", "}">>,
      <<"{", "{", "P", "R", "O", "J", "E", "C", "T", "_", "N", "A", "M", "E", "}">>,
      <<"s", "t", "a", "t", "i", "c">> }

\* project names: plain, regular-expression operators, $ sequences, placeholders, none
ProjectNames ==
    { <<"a">>, <<"m", "y", "-", "a", "p", "p", ".", "$", "^", "*", "+", "?">>, <<"$", "&">>, <<"$", "$">>, <<"$", Backtick>>, <<"$", Quote>>,
      <<"$", "1">>, <<"{", "{", "P", "R", "I", "M", "I", "T", "I", "V", "E", "_", "I", "D", "}", "}">>, <<"{", "{", "P", "R", "O", "J", "E", "C", "T", "_", "N", "A", "M", "E", "}", "}">>, <<>> }

\* primitive ids that pass InputSchema
RenderPrimitiveIds == { <<"a", ".", "b">>, <<"c", ".", "d">> }

\* the rendering step of generate() for one file
Render ==
    /\ rpc = "idle"
    /\ rendered' = RenderTemplate(content, Variables(projectName, primitive))
    /\ rpc' = "done"
    /\ UNCHANGED <<content, projectName, primitive>>
    /\ UNCHANGED <<detVars, genVars, readVars, probeVars>>

\* a template file has been read and is about to be rendered
RenderInit ==
    /\ detectors = Constructed(<<>>)
    /\ dir = "empty"
    /\ DetectorUnused
    /\ GeneratorUnused
    /\ ReaderUnused
    /\ ProbesUnused
    /\ rpc = "idle"
    /\ content \in Templates
    /\ projectName \in ProjectNames
    /\ primitive \in RenderPrimitiveIds
    /\ rendered = <<>>

RenderNext == Render

RenderSpec == RenderInit /\ [][RenderNext]_vars

\* ---------------------------------------------------- claims on rendering

RECURSIVE Verbatim(_, _, _, _)
\* s from index i with every occurrence of pat replaced by the text name, as it is
Verbatim(s, i, pat, name) ==
    IF i > Len(s) THEN <<>>
    ELSE IF MatchesAt(s, i, pat)
         THEN name \o Verbatim(s, i + Len(pat), pat, name)
         ELSE <<s[i]>> \o Verbatim(s, i + 1, pat, name)

\* the text t occurs in s
Occurs(t, s) == \E i \in 1..Len(s) : MatchesAt(s, i, t)

\* C12: for every project name (names made of regular-expression operators,
\* of $ sequences such as $& or $$, or looking like a placeholder included)
\* generate() replaces every occurrence of {{PROJECT_NAME}} in a template by
\* exactly that name, verbatim and unmodified.
C12_ProjectNameVerbatim ==
    (rpc = "done" /\ projectName # <<>> /\ ~Occurs(Placeholder(PrimitiveIdKey), content)) =>
        rendered = Verbatim(content, 1, Placeholder(ProjectNameKey), projectName)

\* ------------------------------------------------- BaseDetector.safeReadFile

\* const MAX_CONFIG_SIZE = 1024 * 1024
MAX_CONFIG_SIZE == 1024 * 1024

\* what the file system may hold at a path: a regular file of some size, a
\* directory, a symbolic link to a small regular file, or nothing
Entries ==
    { [kind |-> "file", size |-> 10],
      [kind |-> "file", size |-> MAX_CONFIG_SIZE],
      [kind |-> "file", size |-> MAX_CONFIG_SIZE + 1],
      [kind |-> "dir", size |-> 4096],
      [kind |-> "symlink", size |-> 8],
      NoEntry }

\* the fs.Stats of fs.lstat, which does not follow a symbolic link
Lstat(e) == [isFile |-> e.kind = "file", isSymbolicLink |-> e.kind = "symlink",
             size |-> e.size]

Returned(k, f) == [kind |-> k, from |-> f]

\* fs.readFile(resolved, 'utf-8'), which follows a symbolic link: the bytes
\* of the file itself, the bytes of a link's target, or an error (EISDIR,
\* ENOENT) that the catch block turns into null
ReadFile(e) ==
    CASE e.kind = "file"    -> Returned("content", "own")
      [] e.kind = "symlink" -> Returned("content", "target")
      [] OTHER              -> Returned("null", "none")

\* stats.size > MAX_CONFIG_SIZE
TooLarge(st) == st.size > MAX_CONFIG_SIZE

\* the directory the probes pass as rootBase, absolute or relative to process.cwd()
RootBases == { <<"/", "w", "/", "p">>, <<"p">> }

\* the paths given to safeReadFile: a manifest in the root, the same relative
\* to process.cwd(), the root itself, a path leaving the root through '..',
\* a path in a directory whose name begins with the root's, a name with a null byte
FilePaths ==
    { <<"/", "w", "/", "p", "/", "m">>, <<"p", "/", "m">>, <<"/", "w", "/", "p">>, <<"/", "w", "/", "p", "/", ".", ".", "/", "x", "/", "m">>, <<"/", "w", "/", "p", "x", "/", "m">>,
      <<"/", "w", "/", "p", "/", "m">> \o <<NUL>> }

\* safeReadFile returns v
ReadEnd(v) ==
    /\ spc' = "done"
    /\ sret' = v

\* safeReadFile(filePath, rootBase): the null-byte check and the root check,
\* up to await fs.lstat
SafeReadStart ==
    /\ spc = "idle"
    /\ IF HasNul(filePath)
       THEN ReadEnd(Returned("null", "none"))
       ELSE IF rootBase # <<>> /\ ~StartsWith(Resolve(filePath), Resolve(rootBase))
            THEN ReadEnd(Returned("null", "none"))
            ELSE spc' = "lstat" /\ sret' = sret
    /\ UNCHANGED <<filePath, rootBase, entry, stats, swapped, opened>>
    /\ UNCHANGED <<detVars, genVars, renVars, probeVars>>

\* lstat has settled: the checks on its result, up to await fs.readFile; an
\* lstat that fails lands in the catch block
SafeReadLstat ==
    /\ spc = "lstat"
    /\ IF entry.kind = "missing"
       THEN /\ ReadEnd(Returned("null", "none"))
            /\ UNCHANGED <<stats, opened>>
       ELSE /\ stats' = Lstat(entry)
            /\ IF \/ ~Lstat(entry).isFile
                  \/ Lstat(entry).isSymbolicLink
                  \/ TooLarge(Lstat(entry))
               THEN /\ ReadEnd(Returned("null", "none"))
                    /\ opened' = opened
               ELSE /\ spc' = "read"
                    /\ opened' = TRUE
                    /\ sret' = sret
    /\ UNCHANGED <<filePath, rootBase, entry, swapped>>
    /\ UNCHANGED <<detVars, genVars, renVars, probeVars>>

\* readFile has settled: its content is returned, or its error caught
SafeReadRead ==
    /\ spc = "read"
    /\ ReadEnd(ReadFile(entry))
    /\ UNCHANGED <<filePath, rootBase, entry, stats, swapped, opened>>
    /\ UNCHANGED <<detVars, genVars, renVars, probeVars>>

\* another process replaces the entry at the path while the call is running
EntrySwap ==
    /\ spc \in {"lstat", "read"}
    /\ \E e \in Entries \ {entry} : entry' = e
    /\ swapped' = TRUE
    /\ UNCHANGED <<spc, filePath, rootBase, stats, sret, opened>>
    /\ UNCHANGED <<detVars, genVars, renVars, probeVars>>

\* a call of safeReadFile on some path, with some entry on disk
ReadInit ==
    /\ detectors = Constructed(<<>>)
    /\ dir = "empty"
    /\ DetectorUnused
    /\ GeneratorUnused
    /\ RenderUnused
    /\ ProbesUnused
    /\ spc = "idle"
    /\ filePath \in FilePaths
    /\ rootBase \in RootBases
    /\ entry \in Entries
    /\ stats = NoEntry
    /\ sret = Returned("none", "none")
    /\ swapped = FALSE
    /\ opened = FALSE

ReadNext ==
    \/ SafeReadStart
    \/ SafeReadLstat
    \/ SafeReadRead
    \/ EntrySwap

ReadSpec == ReadInit /\ [][ReadNext]_vars

\* ------------------------------------------------- claims on safeReadFile

\* the path must be refused: a null byte, a location outside the root's
\* directory tree, an entry that is not a regular file (a symbolic link
\* included), or a file above the cap
MustRefuse ==
    \/ HasNul(filePath)
    \/ ~Inside(Resolve(filePath), Resolve(rootBase))
    \/ entry.kind # "file"
    \/ entry.size > 1048576

\* C13: safeReadFile(path, allowedRoot) never throws and returns null, without
\* reading the file's content, whenever the path contains a null byte,
\* resolves to a location outside the allowedRoot directory, is not a regular
\* file, is a symbolic link, or is larger than 1 MiB (1,048,576 bytes); a
\* regular in-root file of exactly 1 MiB is read and its content returned.
\* (The entry is the one on disk throughout the call.)
C13_SafeReadRefusals ==
    (spc = "done" /\ ~swapped) =>
        /\ sret.kind \in {"null", "content"}
        /\ MustRefuse => (sret.kind = "null" /\ ~opened)
        /\ (~MustRefuse /\ entry.size = 1048576) => sret = Returned("content", "own")

\* C14: no symbolic link is ever followed by a manifest read: even when the
\* entry at the path is replaced while the read is running (swapped from a
\* regular file to a symbolic link between the type check and the content
\* read), the content obtained never comes from a link's target.
C14_NoSymlinkFollowed ==
    sret.kind = "content" => sret.from # "target"

\* ----------------------------------------- the probes on project directories

\* version strings of a declared dependency: empty, or a range
Versions == { JsonString(""), JsonString("^1.0.0") }

\* the packages a package.json of the model declares
NodeKeys == {"@nestjs/core", "next", "express", "@nestjs/cli", "react", "mongoose"}

\* the packages a composer.json of the model declares
PhpKeys == {"laravel/framework", "laravel/laravel"}

\* the manifests that parse and hold at most MaxDeps entries in their two
\* string-to-string maps together
WellFormed(keys) ==
    LET MapsOfSize(ks0, n) ==
            UNION { [ks -> Versions] : ks \in {S \in SUBSET ks0 : Cardinality(S) = n} }
    IN
    UNION { UNION { { JsonFile("text", "object", ObjectMap(a), ObjectMap(b)) :
                        a \in MapsOfSize(keys, na), b \in MapsOfSize(keys, nb) } :
                    nb \in 0..(MaxDeps - na) } :
            na \in 0..MaxDeps }

\* manifests that name the rule key k and are absent, refused, empty, not
\* JSON, a JSON array, or have a dependency map of another shape
Malformed(k) ==
    LET good == ObjectMap(k :> JsonString("^1.0.0"))
    IN  { NoJson,
          JsonFile("refused", "object", good, NoMap),
          JsonFile("empty", "invalid", NoMap, NoMap),
          JsonFile("text", "invalid", good, NoMap),
          JsonFile("text", "array", NoMap, NoMap),
          JsonFile("text", "object", ObjectMap(k :> JsonNumber("1")), NoMap),
          JsonFile("text", "object", ArrayMap, good),
          JsonFile("text", "object", good, ArrayMap),
          JsonFile("text", "object", good, ObjectMap("x" :> JsonNumber("1"))),
          JsonFile("text", "object", NoMap, good),
          JsonFile("text", "object", NoMap, NoMap) }

\* contents of the Python manifests
PythonTexts ==
    { NoText, Refused, TextFile(<<>>), TextFile(<<"r", "e", "q", "u", "e", "s", "t", "s">>), TextFile(<<"f", "l", "a", "s", "k">>),
      TextFile(<<"f", "l", "a", "s", "k">> \o <<LF>> \o <<"d", "j", "a", "n", "g", "o">>) }

\* contents of pom.xml and build.gradle
JavaTexts ==
    { NoText, Refused, TextFile(<<>>), TextFile(<<"j", "u", "n", "i", "t">>),
      TextFile(<<"s", "p", "r", "i", "n", "g", "-", "b", "o", "o", "t", "-", "s", "t", "a", "r", "t", "e", "r">>),
      TextFile(<<"s", "p", "r", "i", "n", "g", "-", "b", "o", "o", "t", "-", "s", "t", "a", "r", "t", "e", "r", "-", "w", "e", "b">>) }

\* contents of a project or solution file
CSharpTexts ==
    { Refused, TextFile(<<>>), TextFile(<<"N", "e", "w", "t", "o", "n", "s", "o", "f", "t", ".", "J", "s", "o", "n">>),
      TextFile(<<"M", "i", "c", "r", "o", "s", "o", "f", "t", ".", "A", "s", "p", "N", "e", "t", "C", "o", "r", "e">>),
      TextFile(<<"M", "i", "c", "r", "o", "s", "o", "f", "t", ".", "A", "s", "p", "N", "e", "t", "C", "o", "r", "e", ".", "M", "v", "c">>) }

\* the project and solution files of cwd, in the order readdir lists them:
\* a.csproj, b.sln, or both; b.sln, c.csproj
CSharpListings ==
    LET proj1(t) == [name |-> <<"a", ".", "c", "s", "p", "r", "o", "j">>, manifest |-> t]
        sln(t)   == [name |-> <<"b", ".", "s", "l", "n">>, manifest |-> t]
        proj2(t) == [name |-> <<"c", ".", "c", "s", "p", "r", "o", "j">>, manifest |-> t]
    IN  { <<>> }
        \cup { <<proj1(t)>> : t \in CSharpTexts }
        \cup { <<sln(t)>> : t \in CSharpTexts }
        \cup { <<proj1(t), sln(u)>> : t \in CSharpTexts, u \in CSharpTexts }
        \cup { <<sln(u), proj2(t)>> : t \in CSharpTexts, u \in CSharpTexts }

\* the project directories of the model, one ecosystem at a time, and
\* directories where a malformed manifest sits next to those of other ecosystems
Projects ==
    { [EmptyProject EXCEPT !.pkg = m, !.siblings = sb] :
          m \in WellFormed(NodeKeys) \cup Malformed("express"), sb \in { {}, {"nest-cli.json"} } }
    \cup { [EmptyProject EXCEPT !.composer = m] : m \in WellFormed(PhpKeys) \cup Malformed("laravel/framework") }
    \cup { [EmptyProject EXCEPT !.pkg = m, !.composer = c, !.gradle = g] :
            m \in Malformed("express"),
            c \in Malformed("laravel/framework")
                   \cup { JsonFile("text", "object",
                                    ObjectMap("laravel/framework" :> JsonString("^10.0")), NoMap) },
            g \in { NoText, TextFile(<<"s", "p", "r", "i", "n", "g", "-", "b", "o", "o", "t", "-", "s", "t", "a", "r", "t", "e", "r">>) } }
    \cup { [EmptyProject EXCEPT !.requirements = r, !.pipfile = f, !.pyproject = t] :
            r \in PythonTexts, f \in PythonTexts, t \in PythonTexts }
    \cup { [EmptyProject EXCEPT !.pom = x, !.gradle = g] : x \in JavaTexts, g \in JavaTexts }
    \cup { [EmptyProject EXCEPT !.csfiles = l] : l \in CSharpListings }
    \cup { NoCwdProject }

RECURSIVE BoostKeys(_)
\* the boost indicators of a rule table
BoostKeys(rules) ==
    IF rules = <<>> THEN {}
    ELSE { Head(rules).confidenceBoost[j] : j \in 1..Len(Head(rules).confidenceBoost) }
         \cup BoostKeys(Tail(rules))

\* the structured manifest m with a boost dependency added to one of its maps
JsonBoosts(m, keys) ==
    LET WithEntry(mp, k, v) == ObjectMap((k :> v) @@ mp.entries)
    IN
    IF m.file # "text" \/ m.json # "object" THEN {}
    ELSE { [m EXCEPT !.a = WithEntry(m.a, k, v)] :
              k \in {x \in keys : m.a.type # "array" /\ x \notin DOMAIN m.a.entries},
              v \in Versions }
         \cup { [m EXCEPT !.b = WithEntry(m.b, k, v)] :
                 k \in {x \in keys : m.b.type # "array" /\ x \notin DOMAIN m.b.entries},
                 v \in Versions }

\* the text manifest m with a line holding a boost substring added
TextBoosts(m, rules) ==
    IF m.file # "text" THEN {}
    ELSE { TextFile(IF m.text = <<>> THEN k ELSE m.text \o <<LF>> \o k) :
              k \in {x \in BoostKeys(rules) : ~Includes(m.text, x)} }

\* the directories that are p with one boost indicator added: a boost
\* dependency, a boost sibling file, or a boost substring in a text manifest
BoostedVariants(p) ==
    IF ~p.exists THEN {}
    ELSE { [p EXCEPT !.pkg = m] : m \in JsonBoosts(p.pkg, BoostKeys(NODE_FRAMEWORKS) \cap NodeKeys) }
         \cup { [p EXCEPT !.siblings = p.siblings \cup {k}] :
                 k \in {"nest-cli.json"} \ p.siblings }
         \cup { [p EXCEPT !.composer = m] : m \in JsonBoosts(p.composer, BoostKeys(PHP_FRAMEWORKS)) }
         \cup { [p EXCEPT !.pom = m] : m \in TextBoosts(p.pom, JAVA_FRAMEWORKS) }
         \cup { [p EXCEPT !.gradle = m] : m \in TextBoosts(p.gradle, JAVA_FRAMEWORKS) }
         \cup UNION { { [p EXCEPT !.csfiles[i].manifest = m] :
                          m \in TextBoosts(p.csfiles[i].manifest, CSHARP_FRAMEWORKS) } :
                      i \in 1..Len(p.csfiles) }

\* detect() on a new FrameworkDetector(cwd): one turn of the loop, the probe
\* at index ppc of the built-in list on the directory; a match is returned,
\* anything else goes on to the next probe, and past the last one the
\* unknown stack is returned
ProbeNext ==
    /\ ppc \in 1..Len(Defaults)
    /\ LET d == Constructed(<<>>)[ppc]
           o == ProbeOutcome(d.name, proj)
           k == IF boosted THEN 2 ELSE 1
       IN  /\ found' = Append(found, o)
           /\ IF SeqVerdict(o) = "return"
              THEN /\ pret' = StackOf(d, o, k)
                   /\ ppc' = Len(Defaults) + 1
              ELSE IF ppc = Len(Defaults)
                   THEN /\ pret' = Fallback(k)
                        /\ ppc' = Len(Defaults) + 1
                   ELSE /\ pret' = pret
                        /\ ppc' = ppc + 1
    /\ UNCHANGED <<proj, prevFound, boosted>>
    /\ UNCHANGED <<detVars, genVars, renVars, readVars>>

\* a boost indicator is added to the directory after a detection, and
\* detection is run again on a new detector
AddBoost ==
    /\ ppc = Len(Defaults) + 1
    /\ ~boosted
    /\ \E q \in BoostedVariants(proj) : proj' = q
    /\ boosted' = TRUE
    /\ prevFound' = found
    /\ found' = <<>>
    /\ pret' = NoStack
    /\ ppc' = 1
    /\ UNCHANGED <<detVars, genVars, renVars, readVars>>

\* a new detector on some project directory, detect() just called
ProbeInit ==
    /\ detectors = Constructed(<<>>)
    /\ dir = "empty"
    /\ DetectorUnused
    /\ GeneratorUnused
    /\ RenderUnused
    /\ ReaderUnused
    /\ proj \in Projects
    /\ ppc = 1
    /\ found = <<>>
    /\ pret = NoStack
    /\ prevFound = <<>>
    /\ boosted = FALSE

ProbeStep ==
    \/ ProbeNext
    \/ AddBoost

ProbeSpec == ProbeInit /\ [][ProbeStep]_vars

\* ---------------------------------------------------- claims on the probes

\* DetectedStack.language and FrameworkName, without 'unknown'
RecognizedLanguages == {"ts", "csharp", "java", "python", "php"}
RecognizedFrameworks == {"nestjs", "nextjs", "express", "angular", "django", "fastapi",
                         "flask", "aspnet", "spring", "laravel"}

\* a record names a recognized language and a recognized framework
Recognized(st) ==
    /\ st.language \in RecognizedLanguages
    /\ st.framework \in RecognizedFrameworks

\* on every project directory of the model, what a built-in probe yields is
\* no match, a failure, or a match naming a recognized language and framework
ProbesYieldRecognized ==
    \A p \in Projects : \A j \in 1..Len(Defaults) :
        LET o == ProbeOutcome(Defaults[j].name, p)
        IN  o.kind = "match" => Recognized(o)

\* C16: with the built-in probes, every stack returned by detect() or
\* detectParallel(), after any sequence of detect/detectParallel/clearCache
\* calls and for every directory state, is either the fully unknown stack
\* (language unknown, framework unknown, confidence 0, no data layer) or has
\* both a recognized language and a recognized framework; the unknown stack
\* is returned exactly when no probe yields a match.
C16_UnknownOrRecognized ==
    /\ ProbesYieldRecognized
    /\ (CustomIds = {} /\ pc = "idle" /\ op # "none") =>
          /\ ret.kind = "value"
          /\ \/ IsUnknown(ret.stack) /\ ret.stack.data = "none"
             \/ Recognized(ret.stack)
          /\ trace # <<>> => (IsUnknown(ret.stack) <=> Matching(trace) = {})

\* C16 witness: on a detector with the built-in probes only, a second
\* computation, by detectParallel(), returned the Laravel stack
C16_Witness ==
    /\ CustomIds = {} /\ pc = "idle" /\ op = "parallel"
    /\ calls = 2 /\ trace # <<>>
    /\ ret.kind = "value"
    /\ ret.stack.framework = "laravel" /\ ret.stack.language = "php"

\* the key k is declared in one of the two dependency maps of m
Declared(m, k) ==
    \/ m.a.type = "object" /\ k \in DOMAIN m.a.entries
    \/ m.b.type = "object" /\ k \in DOMAIN m.b.entries

\* the boost indicators of the rule called name
BoostsOf(rules, name) ==
    UNION { { rules[j].confidenceBoost[m] : m \in 1..Len(rules[j].confidenceBoost) } :
            j \in {x \in 1..Len(rules) : rules[x].name = name} }

\* the text manifest m holds a key of the rule table
HasKey(m, rules) ==
    m.file = "text" /\ \E j \in 1..Len(rules) : Includes(m.text, rules[j].key)

\* the text manifest m holds a boost substring of the rule called name
HasBoost(m, rules, name) ==
    \E k \in BoostsOf(rules, name) : Includes(m.text, k)

\* the confidence the table of section 6 gives the match found[i]
TableConfidence(i) ==
    LET fw == found[i].framework
    IN  CASE i = 1 ->
               IF \E k \in BoostsOf(NODE_FRAMEWORKS, fw) :
                      Declared(proj.pkg, k) \/ k \in proj.siblings
               THEN 95 ELSE 70
          [] i = 2 ->
               IF HasKey(proj.requirements, PYTHON_FRAMEWORKS)
                  \/ HasKey(proj.pipfile, PYTHON_FRAMEWORKS)
               THEN 80 ELSE 90
          [] i = 3 ->
               LET src == FindProject(proj.csfiles)[1]
               IN  IF HasBoost(src.manifest, CSHARP_FRAMEWORKS, fw) THEN 95
                   ELSE IF EndsWith(src.name, <<".", "c", "s", "p", "r", "o", "j">>) THEN 90 ELSE 80
          [] i = 4 ->
               IF HasKey(proj.pom, JAVA_FRAMEWORKS)
               THEN (IF HasBoost(proj.pom, JAVA_FRAMEWORKS, fw) THEN 95 ELSE 90)
               ELSE (IF HasBoost(proj.gradle, JAVA_FRAMEWORKS, fw) THEN 95 ELSE 85)
          [] OTHER ->
               IF \E k \in BoostsOf(PHP_FRAMEWORKS, fw) : Declared(proj.composer, k)
               THEN 95 ELSE 85

\* C17: the confidence of a built-in probe's match is fixed by the source
\* file and the presence of a boost indicator, per the table: Node
\* package.json 0.70, boosted 0.95; Python requirements.txt or Pipfile 0.80,
\* pyproject.toml 0.90; C# .sln 0.80, .csproj 0.90, boosted 0.95; Java
\* build.gradle 0.85, pom.xml 0.90, boosted 0.95; PHP composer.json 0.85,
\* boosted 0.95.
C17_ConfidenceTable ==
    \A i \in 1..Len(found) :
        found[i].kind = "match" => found[i].confidence = TableConfidence(i)

\* the confidence a probe reports; none for no match
Conf(o) == IF o.kind = "match" THEN o.confidence ELSE 0

\* C18: for every built-in probe, adding boost indicators to a directory (a
\* boost dependency, a boost substring in a manifest, a boost sibling file)
\* while leaving everything else unchanged never lowers the confidence the
\* probe reports, and no built-in probe reports a confidence above 0.95.
C18_BoostNeverLowers ==
    /\ \A i \in 1..Len(found) : Conf(found[i]) <= 95
    /\ \A i \in 1..Len(found) :
          i <= Len(prevFound) => Conf(found[i]) >= Conf(prevFound[i])

\* a dependency map that is present and is not a string-to-string mapping
NotStringMap(mp) ==
    \/ mp.type = "array"
    \/ /\ mp.type = "object"
       /\ \E k \in DOMAIN mp.entries : mp.entries[k].type # "string"

\* a manifest with content that is not valid JSON, or with such a map
BadManifest(m) ==
    /\ m.file = "text"
    /\ \/ m.json = "invalid"
       \/ m.json = "object" /\ (NotStringMap(m.a) \/ NotStringMap(m.b))

\* C19: the Node and PHP probes report NoMatch (they neither throw nor match)
\* when the manifest is not valid JSON or when a dependency map in it is
\* present but is not a string-to-string mapping; detect() then falls through
\* to the next probe, or to the unknown stack when no other probe matches.
C19_BadManifestIsNoMatch ==
    /\ (Len(found) >= 1 /\ BadManifest(proj.pkg)) => found[1] = Null
    /\ (Len(found) >= 5 /\ BadManifest(proj.composer)) => found[5] = Null
    /\ (ppc = 6 /\ (BadManifest(proj.pkg) \/ BadManifest(proj.composer))) =>
          IF \E i \in 1..Len(found) : found[i].kind = "match"
          THEN /\ found[Len(found)].kind = "match"
               /\ pret.framework = found[Len(found)].framework
               /\ pret.by = Defaults[Len(found)].name
          ELSE /\ Len(found) = 5
               /\ IsUnknown(pret)

\* C19 witness: package.json declares express with a number for a version,
\* the Node probe reported no match and detect() went on to return Laravel
C19_Witness ==
    /\ ppc = 6
    /\ proj.pkg = JsonFile("text", "object", ObjectMap("express" :> JsonNumber("1")), NoMap)
    /\ found[1] = Null
    /\ Len(found) = 5
    /\ pret.framework = "laravel"

\* a manifest that parses and whose maps are string-to-string mappings
ValidManifest(m) ==
    /\ m.file = "text" /\ m.json = "object"
    /\ ~NotStringMap(m.a) /\ ~NotStringMap(m.b)

RECURSIVE FirstDeclared(_, _)
\* the first rule, in declared order, whose key is declared in m
FirstDeclared(rules, m) ==
    IF rules = <<>> THEN <<>>
    ELSE IF Declared(m, Head(rules).key) THEN <<Head(rules)>>
         ELSE FirstDeclared(Tail(rules), m)

\* the probe outcome o is the match of the first declared rule of m, or no
\* match when m declares no rule key
ChoosesFirstDeclared(o, rules, m) ==
    LET r == FirstDeclared(rules, m)
    IN  IF r = <<>> THEN o = Null
        ELSE o.kind = "match" /\ o.framework = r[1].name

\* C20: within a probe, the framework chosen is that of the first rule, in
\* the declared order of the rule table, whose match key is present in the
\* manifest, a key counting as present whenever it is declared as a key of
\* either dependency map, whatever its version string.
C20_FirstDeclaredRule ==
    /\ (Len(found) >= 1 /\ ValidManifest(proj.pkg)) =>
          ChoosesFirstDeclared(found[1], NODE_FRAMEWORKS, proj.pkg)
    /\ (Len(found) >= 5 /\ ValidManifest(proj.composer)) =>
          ChoosesFirstDeclared(found[5], PHP_FRAMEWORKS, proj.composer)

\* ------------------------------------- claims on the generator's file system

\* the bundle path of the call: templatesRoot/{language}/{framework}/{primitiveId}
BundlePath ==
    PathJoin(<<TemplatesRoot, input.language, input.framework, input.primitiveId>>)

\* C21: when the inputs pass validation and the bundle path
\* templatesRoot/{language}/{framework}/{primitiveId} stays inside
\* templatesRoot but does not exist, generate() raises TemplateNotFoundError
\* with code TEMPLATE_NOT_FOUND whose message names the attempted path, and
\* no file is read or written.
C21_TemplateNotFound ==
    (gpc = "done" /\ InputValid(input)
       /\ Inside(BundlePath, TemplatesRoot) /\ BundlePath \notin DOMAIN tree) =>
        /\ gerr = "TEMPLATE_NOT_FOUND"
        /\ gmsg = <<"Template not found: ">> \o BundlePath
        /\ reads = {}
        /\ writes = <<>>

\* C21 witness: generate('a.b', {ts, tx}, '/o') where only the bundle of the
\* framework n exists ended with TemplateNotFoundError naming /w/t/ts/tx/a.b
C21_Witness ==
    /\ gpc = "done" /\ gerr = "TEMPLATE_NOT_FOUND"
    /\ input.framework = <<"t", "x">>
    /\ Bundle \in DOMAIN tree
    /\ gmsg = <<"Template not found: ", "/", "w", "/", "t", "/", "t", "s", "/", "t", "x", "/", "a", ".", "b">>
    /\ reads = {} /\ writes = <<>>

\* the entry names of the listing l
Names(l) == { l[j] : j \in 1..Len(l) }

\* C22: after a successful generate() into a target directory that had no
\* entries beforehand (or did not exist), the target directory exists and
\* its entries are exactly the file names found directly inside the bundle:
\* N entries for a bundle of N files, N = 0 included.
C22_TargetHoldsBundleNames ==
    (gpc = "done" /\ gerr = "ok") =>
        /\ Target \in DOMAIN tree
        /\ Names(tree[Target]) = Names(tree[templatePath])
        /\ Len(tree[Target]) = Len(tree[templatePath])

\* C23: generate() is not transactional across files: when processing file N
\* of M fails (a read, render or write failure), the call fails with that
\* error, the outputs already written for files 1..N-1 remain on disk and no
\* output for a file after N is written.
C23_NotTransactional ==
    (gpc = "done" /\ gerr = "FS_ERROR") =>
        /\ fidx \in 1..Len(files)
        /\ \A i \in 1..(fidx - 1) :
              /\ Target \in DOMAIN tree
              /\ files[i] \in Names(tree[Target])
        /\ \A i \in (fidx + 1)..Len(files) :
              /\ Target \in DOMAIN tree => files[i] \notin Names(tree[Target])
              /\ \A m \in 1..Len(writes) :
                    writes[m].path # PathJoin(<<input.targetDir, files[i]>>)

\* C23 witness: reading the second of two files failed; the first one is in
\* the target directory and the second is not
C23_Witness ==
    /\ gpc = "done" /\ gerr = "FS_ERROR"
    /\ files = <<Str1("f"), Str1("g")>> /\ fidx = 2
    /\ Len(writes) = 2
    /\ Target \in DOMAIN tree
    /\ tree[Target] = <<Str1("f")>>

\* ------------------------------------------------ claims on the C# probe

\* the entry names a project file, names a solution file
IsCsproj(f) == EndsWith(f.name, <<".", "c", "s", "p", "r", "o", "j">>)
IsSln(f) == EndsWith(f.name, <<".", "s", "l", "n">>)

\* C24: when a directory contains both a .csproj file and a .sln file, the C#
\* probe reads the .csproj (base confidence 0.90 rather than 0.80), whatever
\* the two files are named and in whatever order the directory listing
\* returns them: it reports what it reports without the .sln file.
C24_CsprojPreferred ==
    (/\ Len(found) >= 3
     /\ \E i \in 1..Len(proj.csfiles) : IsCsproj(proj.csfiles[i])
     /\ \E i \in 1..Len(proj.csfiles) : IsSln(proj.csfiles[i])) =>
        found[3] = CSharpDetect([proj EXCEPT !.csfiles = SelectSeq(proj.csfiles, IsCsproj)])

\* ------------------------------------ the detector with steady custom probes

\* detectParallel() called after a detect() call that ran the probes
ParallelAfterDetect ==
    /\ op = "detect"
    /\ trace # <<>>
    /\ ParallelStart

\* new FrameworkDetector(cwd, strategies) with custom probes of priority 0, 9
\* or 15 whose detect(cwd) has the same outcome at every invocation, a
\* promise that never settles included; the directory does not change
FixedInit ==
    /\ \E n \in 0..MaxCustom : \E ps \in [1..n -> CustomPriorities \cup {9}] :
          /\ detectors = Constructed([i \in 1..n |-> Custom(i, ps[i])])
          /\ fixed \in [1..n -> CustomOutcomes \cup {Hang}]
    /\ dir \in DirStates
    /\ cache = NoStack
    /\ pc = "idle"
    /\ idx = 0
    /\ pending = <<>>
    /\ trace = <<>>
    /\ log = <<>>
    /\ ret = [kind |-> "none", stack |-> NoStack]
    /\ calls = 0
    /\ op = "none"
    /\ completed = 0
    /\ firstRet = NoStack
    /\ dropped = NoStack
    /\ recompute = "no"
    /\ watch = TRUE
    /\ cleared = FALSE
    /\ atStart = 0
    /\ GeneratorUnused
    /\ AuxUnused

FixedNext ==
    \/ DetectStart
    \/ DetectResume
    \/ ParallelAfterDetect
    \/ ParallelResume
    \/ ClearCache

FixedSpec == FixedInit /\ [][FixedNext]_vars

\* ---------------------------------------- claims on the calls in flight

\* C25: the built-in probes carry the distinct priorities Node 10, Python 8,
\* C# 7, Java 6, PHP 5, so a custom probe supplied to the constructor with
\* priority 9 is consulted by detect() after the Node probe and before the
\* Python, C#, Java and PHP probes.
C25_BuiltinPriorities ==
    (op = "detect" /\ pc = "idle" /\ trace # <<>>
       /\ \E m \in 1..Len(detectors) : IsCustom(detectors[m]) /\ detectors[m].priority = 9) =>
        /\ [j \in 1..Len(Defaults) |-> Defaults[j].priority] = <<10, 8, 7, 6, 5>>
        /\ \A j \in 1..Len(trace) :
              (IsCustom(trace[j].probe) /\ trace[j].probe.priority = 9) =>
                  /\ j = 2
                  /\ trace[1].probe.name = "Node"

\* C26: clearCache() invalidates the cache also with respect to a detection
\* already in flight: when a detect() or detectParallel() call during which
\* clearCache() was called has finished, the cache check of the next detect()
\* fails, so that it recomputes from disk instead of returning the result of
\* the detection that started before the clear.
C26_ClearReachesCallInFlight ==
    [][(pc # "idle" /\ pc' = "idle" /\ cleared) => ~CacheHit(cache')]_vars

\* C27: a probe registered while a detect() call is suspended awaiting one of
\* the probes is not invoked by that call, whose set and order of consulted
\* probes is the one fixed when it started.
C27_RegisteredNotInvokedInFlight ==
    (pc = "seq") =>
        /\ Len(trace) <= atStart
        /\ Probes(trace) = SubSeq(detectors, 1, Len(trace))

\* C28: detectParallel() invokes every probe before awaiting any of them and
\* does not select a winner, write the cache or return until every probe has
\* settled; a probe that never settles keeps it from returning even when
\* another probe has already fulfilled with a match, and the cache stays
\* empty meanwhile.
C28_WaitsForAllToSettle ==
    /\ [](pc = "par" =>
            /\ Probes(trace) = SubSeq(detectors, 1, atStart)
            /\ pending = trace
            /\ cache = NoStack)
    /\ [][(pc = "par" /\ ~(\A j \in 1..Len(pending) : pending[j].out.kind # "hang")) =>
             (pc' = "par" /\ ret' = ret /\ cache' = NoStack)]_vars

\* C28 witness: detectParallel() is suspended with the cache empty; the Node
\* probe has fulfilled with a match and a custom probe's promise never settles
C28_Witness ==
    /\ pc = "par" /\ cache = NoStack
    /\ \E j \in 1..Len(pending) : pending[j].out.kind = "hang"
    /\ pending[1].probe.name = "Node" /\ pending[1].out.kind = "match"
    /\ Len(pending) = Len(detectors)

\* C29: detect() and detectParallel() share one cache slot: whichever of them
\* completes first fixes the value both return until clearCache(), so a
\* detectParallel() issued after a completed detect() returns detect()'s
\* first-match stack without invoking any probe, even when another probe
\* would fulfil with a strictly higher confidence.
C29_SharedCacheSlot ==
    /\ completed >= 1 => cache = firstRet
    /\ completed = 2 => (pc = "idle" /\ ret = Value(firstRet) /\ trace = <<>> /\ log = <<>>)

\* C29 witness: detect() returned the Spring stack (0.85) of the first match;
\* detectParallel() then returned the same object and invoked no probe,
\* although the PHP probe yields 0.95 on this directory
C29_Witness ==
    /\ completed = 2 /\ op = "parallel" /\ pc = "idle" /\ trace = <<>>
    /\ ret = Value(firstRet)
    /\ firstRet.by = "Java" /\ firstRet.confidence = 85
    /\ dir = "javaPhp"
    /\ BuiltinOutcome(dir, "PHP").confidence = 95

\* In FixedSpec a detectParallel() call that runs the probes follows a
\* detect() call that ran them on the same list and directory, and a
\* clearCache(); dropped is the stack that detect() call returned.
\* C30: for the same probe list and the same directory state, each starting
\* from an empty cache and with probes whose outcome depends only on the
\* directory state, the confidence of the result selected by detectParallel()
\* is greater than or equal to that of the result selected by detect(), and
\* detectParallel() returns the unknown stack exactly when detect() does.
C30_ParallelAtLeastDetect ==
    (op = "parallel" /\ pc = "idle" /\ trace # <<>> /\ dropped # NoStack) =>
        /\ ret.kind = "value"
        /\ ret.stack.confidence >= dropped.confidence
        /\ IsUnknown(ret.stack) <=> IsUnknown(dropped)

====
